---- MODULE Spec2Model ----
(***************************************************************************)
(* Depth-to-RGB calibration optimizer (optimizer.cpp): the outer cycle     *)
(* loop optimizer::optimize, the inner loop optimizer::optimize_p and the  *)
(* back-tracking line search, as a sequential state machine.               *)
(*                                                                         *)
(* Numbers.  A double is an integer in fixed model units, or NaN.  A       *)
(* p_matrix (12 doubles, a 3x4 matrix) is the pair <<vals[0], vals[8]>>:   *)
(* one element of the two rows calc_p_gradients averages and one element   *)
(* of the last row, which it leaves 0.  All other elements are 0, so the   *)
(* matrix has a single non-zero column and its 2-norm is the Euclidean     *)
(* norm of that column.                                                    *)
(*                                                                         *)
(* Collaborators whose code is elsewhere (calc_cost,                       *)
(* calc_cost_per_vertex_diff, convert_new_k_to_DSM, the sampled field      *)
(* gradients) are inputs: every call draws its result from a bounded set.  *)
(***************************************************************************)
EXTENDS Integers, Sequences, FiniteSets, TLC

\* ---------------------------------------------------------------- bounds
\* largest configured _params.max_optimization_iters
MaxOptimizationIters == 2
\* largest configured _params.max_K2DSM_iters
MaxK2DSMIters == 2
\* largest configured _params.max_back_track_iters
MaxBackTrackIters == 2

\* ------------------------------------------------------ double arithmetic
\* 0.0 / 0.0
NaN == 1000000

IsNaN(x) == x = NaN

Abs(x) == IF x < 0 THEN -x ELSE x

Add(x, y) == IF IsNaN(x) \/ IsNaN(y) THEN NaN ELSE x + y

Sub(x, y) == IF IsNaN(x) \/ IsNaN(y) THEN NaN ELSE x - y

Mul(x, y) == IF IsNaN(x) \/ IsNaN(y) THEN NaN ELSE x * y

\* x / y, rounded towards 0; a division by 0 gives NaN (the optimization
\* stage divides by 0 only in 0/0)
Div(x, y) ==
    IF IsNaN(x) \/ IsNaN(y) \/ y = 0 THEN NaN
    ELSE IF (x < 0) = (y < 0) THEN Abs(x) \div Abs(y) ELSE -(Abs(x) \div Abs(y))

FAbs(x) == IF IsNaN(x) THEN NaN ELSE Abs(x)

\* comparisons: every comparison with a NaN operand is false
Lt(x, y) == ~IsNaN(x) /\ ~IsNaN(y) /\ x < y

Gt(x, y) == ~IsNaN(x) /\ ~IsNaN(y) /\ x > y

Ge(x, y) == ~IsNaN(x) /\ ~IsNaN(y) /\ x >= y

Sqrt(n) == CHOOSE r \in 0..n : r * r <= n /\ (r + 1) * (r + 1) > n

\* --------------------------------------------------------------- p_matrix
PHasNaN(m) == IsNaN(m[1]) \/ IsNaN(m[2])

PAdd(a, b) == <<Add(a[1], b[1]), Add(a[2], b[2])>>

PSub(a, b) == <<Sub(a[1], b[1]), Sub(a[2], b[2])>>

\* p_matrix * double
PScale(a, k) == <<Mul(a[1], k), Mul(a[2], k)>>

\* p_matrix * p_matrix, element by element
PMul(a, b) == <<Mul(a[1], b[1]), Mul(a[2], b[2])>>

PSum(a) == Add(a[1], a[2])

normalize(m, norma) == <<Div(m[1], norma), Div(m[2], norma)>>

matrix_norm(m) == IF PHasNaN(m) THEN NaN ELSE Sqrt(m[1] * m[1] + m[2] * m[2])

get_norma(m) == IF PHasNaN(m) THEN NaN ELSE Sqrt(m[2] * m[2] + m[1] * m[1])

\* p_matrix / _params.normalize_mat: vals[0] is divided by 0.3537 (times 3
\* in model units), vals[8] by 414.2
DivNormalizeMat(m) == <<Mul(m[1], 3), Div(m[2], 414)>>

\* ------------------------------------------------------------ calibration
\* calib: fx, the rest of the first row of K*[R|t] (rest) and the last row
\* (tail); by is the cycle whose inner-loop run produced it.  fx stands for
\* the two focal lengths k_mat.fx and k_mat.fy, which the code treats alike.
calc_p_mat(c) == <<Add(c.fx, c.rest), c.tail>>

\* decompose( p, in_calibration ): the deterministic split of vals[0] into
\* the focal length and the rest; a calibration it produced is a fixpoint.
decompose(p, in_calibration) ==
    [in_calibration EXCEPT
        !.fx = Sub(p[1], Div(p[1], 2)),
        !.rest = Div(p[1], 2),
        !.tail = p[2]]

\* res.fx = orig.fx / new_c.k_mat.fx * orig_c.k_mat.fx, kept as the
\* fraction <<numerator, denominator>>
get_new_z_intrinsics_from_new_calib(orig, new_c, orig_c) ==
    <<Mul(orig, orig_c.fx), new_c.fx>>

\* clip_ac_scaling( original, candidate ): the candidate's scaling clamped
\* to the envelope around the original's
clip_ac_scaling(orig, new) ==
    [new EXCEPT !.scale =
        IF new.scale > orig.scale + 2 THEN orig.scale + 2
        ELSE IF new.scale < orig.scale - 2 THEN orig.scale - 2
        ELSE new.scale]

\* ------------------------------------------------------------------ state
VARIABLES
    pc,                     \* position in optimize / optimize_p / line search
    _params,                \* the configuration (params)
    cb,                     \* TRUE when the caller gave a callback
    scene,                  \* what the collaborators can return for the frames given
    _original_calibration,
    _params_curr,
    _final_calibration,
    _final_dsm_params,
    _z,                     \* vertices, orig_vertices, orig_dsm_params, orig_intrinsics
    _ir,                    \* the IR frame data set_z_data works on
    _yuy,                   \* the colour frame data: its width and height
    cycle, last_cost, new_params, new_calib, new_k_depth, new_dsm_params,
    n_iterations,           \* optimize's local, the value it returns
    cand,                   \* dsm_candidate, params_candidate, calib_candidate, k_depth_candidate
    data,                   \* iteration_data_collect
    op,                     \* the frame of the running optimize_p call
    ls,                     \* the frame of the running back_tracking_line_search call
    cb_log,                 \* the calls made to the callback, in order
    hist                    \* history: calls and loop bodies run so far

vars == <<pc, _params, cb, scene, _original_calibration, _params_curr, _final_calibration,
          _final_dsm_params, _z, cycle, last_cost, new_params, new_calib, new_k_depth,
          new_dsm_params, n_iterations, cand, data, op, ls, cb_log, hist, _ir, _yuy>>

\* a default-constructed optimization_params, before anything is assigned
NoParams == [curr_p_mat |-> <<0, 0>>, calib_gradients |-> <<0, 0>>, cost |-> 0]

NoCalib == [fx |-> 0, rest |-> 0, tail |-> 0, by |-> 0]

NoDsm == [by |-> 0, scale |-> 0]

NoLs == [curr_params |-> NoParams, new_params |-> NoParams, unit_grad |-> <<0, 0>>,
         t |-> 0, step_size |-> 0, diff |-> 0, iter_count |-> 0,
         back_tracking_line_search_iters |-> 0, exit |-> "none"]

NoOp == [site |-> "none", params_curr |-> NoParams, n |-> 0, curr |-> NoParams,
         params_new |-> NoParams, new_rgb_calib |-> NoCalib, stop |-> "none"]

\* the results calc_cost can give at a finite p_mat
Costs == {1, 2}

\* the candidate scalings convert_new_k_to_DSM can give
DsmScales == {10, 13}

\* ------------------------------------------------ cost / gradient stage
\* calc_p_gradients: sums.vals / sum_of_valids for the first two rows, the
\* last row stays 0.  sums is the weighted sum over the contributing
\* vertices and sum_of_valids their number.
calc_p_gradients(sums, sum_of_valids) == <<Div(sums, sum_of_valids), 0>>

\* What the collaborators can hand a cost or gradient evaluation at p_mat:
\* the cost, and the weighted sum with the number of contributing vertices
\* (none contributes when every sample is the no-data value).
CostsAt(p_mat) == IF PHasNaN(p_mat) THEN Costs \cup {NaN} ELSE Costs

SumsAt(p_mat) == IF PHasNaN(p_mat) THEN {<<NaN, 1>>, <<0, 0>>} ELSE scene.sums

\* calc_cost_and_grad is a function of the vertices and p_mat.  The first
\* evaluation of the first optimize_p call repeats the one optimize made,
\* and an evaluation after a hand-over (n > 0) is made where the line
\* search computed the cost: those results are known.  A call on new
\* vertices starts from a cost not seen before.
EvalCosts(o) ==
    IF o.site = "candidate" /\ o.n = 0 THEN CostsAt(o.curr.curr_p_mat) ELSE {o.curr.cost}

EvalGrads(o) ==
    IF o.site = "first" /\ o.n = 0 THEN {o.curr.calib_gradients}
    ELSE {calc_p_gradients(sg[1], sg[2]) : sg \in SumsAt(o.curr.curr_p_mat)}

\* --------------------------------------------------------- public getters
get_calibration == _final_calibration

get_dsm_params == _final_dsm_params

get_cost == _params_curr.cost

\* --------------------------------------------------------------- optimize
\* the call optimize_p( params_curr, params_new, new_rgb_calib, ... )
CallOptimizeP(site, params_curr, new_rgb_calib) ==
    [site |-> site, params_curr |-> params_curr, n |-> 0, curr |-> params_curr,
     params_new |-> NoParams, new_rgb_calib |-> new_rgb_calib, stop |-> "none"]

\* optimize, up to the first call of optimize_p
OptimizeStart ==
    /\ pc = "start"
    /\ \E c \in Costs, sg \in SumsAt(calc_p_mat(_original_calibration)) :
        LET p0 == calc_p_mat(_original_calibration)
            oc == decompose(p0, _original_calibration)
            pcurr == [curr_p_mat |-> p0, cost |-> c,
                      calib_gradients |-> calc_p_gradients(sg[1], sg[2])]
        IN  /\ _original_calibration' = oc
            /\ _params_curr' = pcurr
            /\ last_cost' = c
            /\ new_calib' = oc
            /\ op' = CallOptimizeP("first", pcurr, oc)
    /\ cycle' = 1
    /\ data' = [data EXCEPT !.cycle = 1]
    /\ hist' = [hist EXCEPT !.p_calls = @ + 1, !.bodies = 0]
    /\ pc' = "p_eval"
    /\ UNCHANGED <<_params, cb, scene, _final_calibration, _final_dsm_params, _z, new_params,
                   new_k_depth, new_dsm_params, n_iterations, cand, ls, cb_log, _ir, _yuy>>

\* ------------------------------------------------------------- optimize_p
\* the head of the loop body: calc_cost_and_grad and the data it records
CalcCostAndGrad ==
    /\ pc = "p_eval"
    /\ \E c \in EvalCosts(op), g \in EvalGrads(op) :
        op' = [op EXCEPT !.curr.cost = c, !.curr.calib_gradients = g]
    /\ data' = [data EXCEPT !.type = "iteration_data", !.iteration = op.n]
    /\ hist' = [hist EXCEPT !.bodies = @ + 1]
    /\ pc' = "ls_start"
    /\ UNCHANGED <<_params, cb, scene, _original_calibration, _params_curr, _final_calibration,
                   _final_dsm_params, _z, cycle, last_cost, new_params, new_calib,
                   new_k_depth, new_dsm_params, n_iterations, cand, ls, cb_log, _ir, _yuy>>

\* ------------------------------------------------ back_tracking_line_search
\* the candidate at a step size: curr_params.curr_p_mat + unit_grad * step_size
Candidate(curr_params, unit_grad, step_size) ==
    PAdd(curr_params.curr_p_mat, PScale(unit_grad, step_size))

\* calib_gradients of the local new_params is never assigned
IndeterminateGrads == {<<0, 0>>}

\* from the entry to the first test of the loop
LineSearchStart ==
    /\ pc = "ls_start"
    /\ LET curr_params == op.curr
           grads_over_norm == normalize(curr_params.calib_gradients,
                                        matrix_norm(curr_params.calib_gradients))
           grad == DivNormalizeMat(grads_over_norm)
           grad_norm == matrix_norm(grad)
           unit_grad == normalize(grad, grad_norm)
           t == PSum(PMul(PScale(grad, -_params.control_param), unit_grad))
           step_size == Div(Mul(_params.max_step_size, grad_norm), matrix_norm(unit_grad))
           p_new == Candidate(curr_params, unit_grad, step_size)
       IN  \E c \in CostsAt(p_new), d \in scene.diffs, u \in IndeterminateGrads :
            ls' = [curr_params |-> curr_params,
                   new_params |-> [curr_p_mat |-> p_new, cost |-> c, calib_gradients |-> u],
                   unit_grad |-> unit_grad, t |-> t, step_size |-> step_size,
                   diff |-> d, iter_count |-> 0, back_tracking_line_search_iters |-> 0,
                   exit |-> "none"]
    /\ hist' = [hist EXCEPT !.shrinks = 0]
    /\ pc' = "ls_loop"
    /\ UNCHANGED <<_params, cb, scene, _original_calibration, _params_curr, _final_calibration,
                   _final_dsm_params, _z, cycle, last_cost, new_params, new_calib,
                   new_k_depth, new_dsm_params, n_iterations, cand, data, op, cb_log, _ir, _yuy>>

\* the three operands of the loop condition, in the order they are evaluated;
\* BelowBound_OffByOne is a bound test that lets one more pass through
NotAccepted(l) == Ge(l.diff, Mul(l.step_size, l.t))

AboveFloor(l) == Gt(FAbs(l.step_size), _params.min_step_size)

BelowBound_OffByOne(l) == l.iter_count <= _params.max_back_track_iters

BelowBound(l) == l.iter_count < _params.max_back_track_iters

\* iter_count after the loop condition was evaluated: iter_count++ runs when
\* the first two operands are true
CountAfterTest(l) == IF NotAccepted(l) /\ AboveFloor(l) THEN l.iter_count + 1 ELSE l.iter_count

\* one pass of the loop body; step_size = _params.tau * step_size divides
\* by tau_inv
BackTrack ==
    /\ pc = "ls_loop"
    /\ NotAccepted(ls) /\ AboveFloor(ls) /\ BelowBound(ls)
    /\ LET step_size == Div(ls.step_size, _params.tau_inv)
           p_new == Candidate(ls.curr_params, ls.unit_grad, step_size)
       IN  \E c \in CostsAt(p_new), d \in scene.diffs :
            ls' = [ls EXCEPT !.iter_count = CountAfterTest(ls),
                             !.step_size = step_size,
                             !.new_params.curr_p_mat = p_new,
                             !.new_params.cost = c,
                             !.diff = d]
    /\ hist' = [hist EXCEPT !.shrinks = @ + 1]
    /\ UNCHANGED <<pc, _params, cb, scene, _original_calibration, _params_curr, _final_calibration,
                   _final_dsm_params, _z, cycle, last_cost, new_params, new_calib,
                   new_k_depth, new_dsm_params, n_iterations, cand, data, op, cb_log, _ir, _yuy>>

\* the operand that ended the loop: the first one ("test": diff >=
\* step_size * t is false), the second ("floor") or the third ("bound")
ExitReason(l) ==
    IF ~NotAccepted(l) THEN "test" ELSE IF ~AboveFloor(l) THEN "floor" ELSE "bound"

\* a search that restores the matrix of the input state but not its cost
LineSearchResult_KeepsCost(l) ==
    IF NotAccepted(l) THEN [l.curr_params EXCEPT !.cost = l.new_params.cost] ELSE l.new_params

\* the state the search returns once the loop has ended
LineSearchResult(l) == IF NotAccepted(l) THEN l.curr_params ELSE l.new_params

\* the loop ends; the result goes to optimize_p's params_new
LineSearchReturn ==
    /\ pc = "ls_loop"
    /\ ~(NotAccepted(ls) /\ AboveFloor(ls) /\ BelowBound(ls))
    /\ ls' = [ls EXCEPT !.iter_count = CountAfterTest(ls),
                         !.back_tracking_line_search_iters = CountAfterTest(ls),
                         !.exit = ExitReason(ls)]
    /\ op' = [op EXCEPT !.params_new = LineSearchResult(ls)]
    /\ pc' = "p_cb"
    /\ UNCHANGED <<_params, cb, scene, _original_calibration, _params_curr, _final_calibration,
                   _final_dsm_params, _z, cycle, last_cost, new_params, new_calib,
                   new_k_depth, new_dsm_params, n_iterations, cand, data, cb_log, hist, _ir, _yuy>>


\* ------------------------------------------- optimize_p, after the search
\* a callback that is made for iteration data only
CallCb_IterationOnly(log, d) ==
    IF cb /\ d.type = "iteration_data" THEN Append(log, <<d.type, d.cycle, d.iteration>>)
    ELSE log

\* cb( *data ), made when the caller gave a callback
CallCb(log, d) == IF cb THEN Append(log, <<d.type, d.cycle, d.iteration>>) ELSE log

\* a test on the size of the new matrix instead of the size of the step
StepNormStop_OfMatrix(o) ==
    Lt(get_norma(o.params_new.curr_p_mat), _params.min_rgb_mat_delta)

\* norm < _params.min_rgb_mat_delta
StepNormStop(o) ==
    Lt(get_norma(PSub(o.params_new.curr_p_mat, o.curr.curr_p_mat)),
       _params.min_rgb_mat_delta)

\* abs( params_new.cost - curr.cost ) < _params.min_cost_delta
CostDeltaStop(o) ==
    Lt(FAbs(Sub(o.params_new.cost, o.curr.cost)), _params.min_cost_delta)

\* ++n_iterations >= _params.max_optimization_iters, n being the count
\* before the increment
IterCapStop(n) == n + 1 >= _params.max_optimization_iters

\* a loop without the cost-delta test
StopReason_NoCostTest(o) ==
    IF StepNormStop(o) THEN "norm"
    ELSE IF IterCapStop(o.n) THEN "cap"
    ELSE "none"

\* why the loop breaks after this iteration, "none" when it goes on
StopReason(o) ==
    IF StepNormStop(o) THEN "norm"
    ELSE IF CostDeltaStop(o) THEN "cost"
    ELSE IF IterCapStop(o.n) THEN "cap"
    ELSE "none"

\* n_iterations after the tests: incremented when the third test is reached
CountAfterIteration(o) == IF StopReason(o) \in {"cap", "none"} THEN o.n + 1 ELSE o.n

decompose_p_mat(p) == decompose(p, _original_calibration)

\* the callback, the three stop tests and, when none holds, the hand-over
\* of the search's result to the next iteration
IterationEnd ==
    /\ pc = "p_cb"
    /\ cb_log' = CallCb(cb_log, data)
    /\ LET why == StopReason(op)
       IN  /\ op' = IF why = "none"
                    THEN [op EXCEPT !.n = CountAfterIteration(op),
                                    !.curr = op.params_new,
                                    !.new_rgb_calib = decompose_p_mat(op.params_new.curr_p_mat)]
                    ELSE [op EXCEPT !.n = CountAfterIteration(op), !.stop = why]
           /\ pc' = IF why = "none" THEN "p_eval" ELSE "p_ret"
           /\ hist' = [hist EXCEPT !.shrinks = 0,
                                    !.capped = IF why = "cap" THEN @ \cup {cycle} ELSE @]
    /\ ls' = NoLs
    /\ UNCHANGED <<_params, cb, scene, _original_calibration, _params_curr, _final_calibration,
                   _final_dsm_params, _z, cycle, last_cost, new_params, new_calib,
                   new_k_depth, new_dsm_params, n_iterations, cand, data, _ir, _yuy>>

\* an optimize_p that keeps the focal lengths of the decomposition
OptimizePResult_KeepsDecomposedFocal(o) ==
    LET decomposed == decompose_p_mat(o.params_new.curr_p_mat)
        orig_rgb_calib == decompose_p_mat(o.params_curr.curr_p_mat)
        new_rgb_calib == [decomposed EXCEPT !.by = cycle]
    IN  [params_new |-> [o.params_new EXCEPT !.curr_p_mat = calc_p_mat(new_rgb_calib)],
         new_rgb_calib |-> new_rgb_calib,
         new_z_k |-> get_new_z_intrinsics_from_new_calib(_z.orig_intrinsics,
                                                         decomposed, orig_rgb_calib),
         n_iterations |-> o.n]

\* what optimize_p hands back after its loop: params_new, new_rgb_calib,
\* new_z_k and the count it returns
OptimizePResult(o) ==
    LET decomposed == decompose_p_mat(o.params_new.curr_p_mat)
        orig_rgb_calib == decompose_p_mat(o.params_curr.curr_p_mat)
        new_rgb_calib == [decomposed EXCEPT !.fx = _original_calibration.fx, !.by = cycle]
    IN  [params_new |-> [o.params_new EXCEPT !.curr_p_mat = calc_p_mat(new_rgb_calib)],
         new_rgb_calib |-> new_rgb_calib,
         new_z_k |-> get_new_z_intrinsics_from_new_calib(_z.orig_intrinsics,
                                                         decomposed, orig_rgb_calib),
         n_iterations |-> o.n]

\* the first call returns into optimize, which then prepares the cycle loop
OptimizePReturnFirst ==
    /\ pc = "p_ret"
    /\ op.site = "first"
    /\ LET r == OptimizePResult(op)
       IN  /\ n_iterations' = r.n_iterations
           /\ new_params' = r.params_new
           /\ new_calib' = r.new_rgb_calib
           /\ new_k_depth' = r.new_z_k
    /\ _z' = [_z EXCEPT !.orig_vertices = _z.vertices]
    /\ new_dsm_params' = _z.orig_dsm_params
    /\ op' = NoOp
    /\ pc' = "cycle_test"
    /\ UNCHANGED <<_params, cb, scene, _original_calibration, _params_curr, _final_calibration,
                   _final_dsm_params, cycle, last_cost, cand, data, ls, cb_log, hist, _ir, _yuy>>

\* a later call returns into the cycle loop; the count it returns is dropped
OptimizePReturnCandidate ==
    /\ pc = "p_ret"
    /\ op.site = "candidate"
    /\ LET r == OptimizePResult(op)
       IN  cand' = [cand EXCEPT !.params = r.params_new,
                                !.calib = r.new_rgb_calib,
                                !.k_depth = r.new_z_k]
    /\ op' = NoOp
    /\ pc' = "cycle_cmp"
    /\ UNCHANGED <<_params, cb, scene, _original_calibration, _params_curr, _final_calibration,
                   _final_dsm_params, _z, cycle, last_cost, new_params, new_calib,
                   new_k_depth, new_dsm_params, n_iterations, data, ls, cb_log, hist, _ir, _yuy>>

\* ------------------------------------------------- optimize, the cycle loop
\* while( cycle < _params.max_K2DSM_iters )
CycleLoopTest(c) == c < _params.max_K2DSM_iters

\* the head of a cycle: the candidate secondary model and vertices, the
\* cycle callback, and the call of optimize_p on the new vertices
CycleStart ==
    /\ pc = "cycle_test"
    /\ CycleLoopTest(cycle)
    /\ cycle' = cycle + 1
    /\ \E s \in DsmScales :
        cand' = [dsm |-> [by |-> cycle + 1, scale |-> s], params |-> NoParams,
                 calib |-> new_calib, k_depth |-> <<0, 0>>]
    /\ data' = [data EXCEPT !.cycle = cycle + 1, !.type = "cycle_data"]
    /\ cb_log' = CallCb(cb_log, data')
    /\ _z' = [_z EXCEPT !.vertices = cycle + 1]
    /\ op' = CallOptimizeP("candidate", new_params, new_calib)
    /\ hist' = [hist EXCEPT !.p_calls = @ + 1, !.bodies = 0]
    /\ pc' = "p_eval"
    /\ UNCHANGED <<_params, cb, scene, _original_calibration, _params_curr, _final_calibration,
                   _final_dsm_params, last_cost, new_params, new_calib, new_k_depth,
                   new_dsm_params, n_iterations, ls, _ir, _yuy>>

\* a comparison that also stops on an equal cost
CandidateRejected_OrEqual(candidate_cost, reference_cost) ==
    ~Gt(candidate_cost, reference_cost)

\* if( params_candidate.cost < last_cost ) break;
CandidateRejected(candidate_cost, reference_cost) == Lt(candidate_cost, reference_cost)

CycleReject ==
    /\ pc = "cycle_cmp"
    /\ CandidateRejected(cand.params.cost, last_cost)
    /\ hist' = [hist EXCEPT !.rejected = cycle, !.ref = last_cost]
    /\ pc' = "final"
    /\ UNCHANGED <<_params, cb, scene, _original_calibration, _params_curr, _final_calibration,
                   _final_dsm_params, _z, cycle, last_cost, new_params, new_calib,
                   new_k_depth, new_dsm_params, n_iterations, cand, data, op, ls, cb_log, _ir, _yuy>>

CycleAccept ==
    /\ pc = "cycle_cmp"
    /\ ~CandidateRejected(cand.params.cost, last_cost)
    /\ new_params' = cand.params
    /\ new_calib' = cand.calib
    /\ new_k_depth' = cand.k_depth
    /\ new_dsm_params' = cand.dsm
    /\ last_cost' = cand.params.cost
    /\ hist' = [hist EXCEPT !.accepted = cycle, !.ref = last_cost]
    /\ pc' = "cycle_test"
    /\ UNCHANGED <<_params, cb, scene, _original_calibration, _params_curr, _final_calibration,
                   _final_dsm_params, _z, cycle, n_iterations, cand, data, op, ls, cb_log, _ir, _yuy>>

\* an optimize that reports the calibration of the last candidate
FinalCalibration_Candidate == cand.calib

\* _final_calibration = new_calib
FinalCalibration == new_calib

\* an optimize that reports the secondary model without the clamp
FinalDsmParams_Unclamped == new_dsm_params

\* _final_dsm_params = clip_ac_scaling( _z.orig_dsm_params, new_dsm_params )
FinalDsmParams == clip_ac_scaling(_z.orig_dsm_params, new_dsm_params)

\* after the loop: the two outputs and the returned count
Finish ==
    /\ \/ pc = "final"
       \/ pc = "cycle_test" /\ ~CycleLoopTest(cycle)
    /\ _final_dsm_params' = FinalDsmParams
    /\ _final_calibration' = FinalCalibration
    /\ hist' = [hist EXCEPT !.returned = n_iterations]
    /\ pc' = "done"
    /\ UNCHANGED <<_params, cb, scene, _original_calibration, _params_curr, _z, cycle, last_cost,
                   new_params, new_calib, new_k_depth, new_dsm_params, n_iterations, cand,
                   data, op, ls, cb_log, _ir, _yuy>>

\* ------------------------------------------------------- initial states
\* the configurations: the three caps vary, the thresholds are fixed
Configs(opt_iters, k2dsm_iters, back_track_iters) ==
    [max_optimization_iters : opt_iters,
     max_K2DSM_iters : k2dsm_iters,
     max_back_track_iters : back_track_iters,
     min_step_size : {3},
     max_step_size : {4},
     control_param : {1},
     tau_inv : {2},               \* _params.tau is 1 / tau_inv
     min_rgb_mat_delta : {4},
     min_cost_delta : {1}]

\* the calibration set_yuy_data stored, and the one optimize makes of it
InputCalibration == [fx |-> 10, rest |-> 10, tail |-> 1, by |-> 0]

NoHist == [p_calls |-> 0, bodies |-> 0, shrinks |-> 0, capped |-> {}, accepted |-> 0,
           rejected |-> 0, ref |-> 0, returned |-> 0]

\* optimize does not read the IR frame data
NoIr == [width |-> 0, height |-> 0]

\* nor the size of the colour frame, that only the in-bounds mask of
\* set_z_data reads
NoYuy == [width |-> 0, height |-> 0]

\* the depth data set_z_data leaves for optimize
ZData == [vertices |-> 1, orig_vertices |-> 0,
          orig_dsm_params |-> [by |-> 1, scale |-> 10], orig_intrinsics |-> 5]

\* the depth data of set_z_data before its sub-pixel stage
NoZ == [local_rc_subpixel |-> <<>>, edge_sub_pixel |-> <<>>]

\* the session after set_z_data and set_yuy_data, before optimize
Loaded ==
    /\ _params_curr = NoParams
    /\ _final_calibration = NoCalib
    /\ _final_dsm_params = NoDsm
    /\ last_cost = 0
    /\ new_params = NoParams
    /\ new_calib = NoCalib
    /\ new_k_depth = <<0, 0>>
    /\ new_dsm_params = NoDsm
    /\ n_iterations = 0
    /\ cand = [dsm |-> NoDsm, params |-> NoParams, calib |-> NoCalib, k_depth |-> <<0, 0>>]
    /\ ls = NoLs
    /\ cb_log = <<>>

\* optimize is called
Init ==
    /\ pc = "start"
    /\ _params \in Configs({1, 2}, 0..MaxK2DSMIters, {1})
    /\ scene = [sums |-> {<<1, 1>>, <<0, 0>>}, diffs |-> {-40, 0}]
    /\ cb = TRUE
    /\ _original_calibration = InputCalibration
    /\ Loaded
    /\ _z = ZData
    /\ _ir = NoIr
    /\ _yuy = NoYuy
    /\ cycle = 0
    /\ data = [cycle |-> 0, type |-> "unset", iteration |-> 0]
    /\ op = NoOp
    /\ hist = NoHist

\* the optimization_params a call of optimize_p or of the line search can be
\* given: the p_mat of a decomposed calibration, a cost and a gradient
InputParams ==
    {[curr_p_mat |-> calc_p_mat(decompose(calc_p_mat(InputCalibration), InputCalibration)),
      cost |-> c,
      calib_gradients |-> calc_p_gradients(sg[1], sg[2])] :
        c \in Costs, sg \in scene.sums}

\* optimize_p is called, with or without a callback, as the first call of
\* optimize or as the call of its second cycle
InitP ==
    /\ pc = "p_eval"
    /\ _params \in Configs(0..MaxOptimizationIters, {2}, 0..1)
    /\ scene = [sums |-> {<<1, 1>>, <<0, 1>>, <<0, 0>>}, diffs |-> {-40, -20, 0}]
    /\ cb \in BOOLEAN
    /\ _original_calibration = decompose(calc_p_mat(InputCalibration), InputCalibration)
    /\ Loaded
    /\ _z = ZData
    /\ _ir = NoIr
    /\ _yuy = NoYuy
    /\ \E site \in {"first", "candidate"}, params_curr \in InputParams :
        /\ op = CallOptimizeP(site, params_curr, _original_calibration)
        /\ cycle = IF site = "first" THEN 1 ELSE 2
    /\ data = [cycle |-> cycle, type |-> IF cycle = 1 THEN "unset" ELSE "cycle_data",
               iteration |-> 0]
    /\ hist = [NoHist EXCEPT !.p_calls = cycle]

\* back_tracking_line_search is called from the first iteration of optimize_p
InitLS ==
    /\ pc = "ls_start"
    /\ _params \in Configs({1}, {1}, 0..MaxBackTrackIters)
    /\ scene = [sums |-> {<<-1, 1>>, <<1, 1>>, <<0, 1>>, <<0, 0>>},
                diffs |-> {-40, -20, -10, 0}]
    /\ cb = TRUE
    /\ _original_calibration = decompose(calc_p_mat(InputCalibration), InputCalibration)
    /\ Loaded
    /\ _z = ZData
    /\ _ir = NoIr
    /\ _yuy = NoYuy
    /\ \E params_curr \in InputParams :
        op = CallOptimizeP("first", params_curr, _original_calibration)
    /\ cycle = 1
    /\ data = [cycle |-> 1, type |-> "iteration_data", iteration |-> 0]
    /\ hist = [NoHist EXCEPT !.p_calls = 1, !.bodies = 1]

\* ------------------------------------------------- set_z_data: directions
\* largest number of IR edge pixels (entries of the per-pixel arrays)
MaxPixels == 2

\* Angles.  An angle is an integer number of units of 1.875 degrees, so
\* that 22.5 degrees is 12 units and 360 degrees is 192.
Deg(d) == (d * 8) \div 15

\* 360 + angle: doubles near 360 are coarser than doubles near 0.  The
\* model's doubles near 360 resolve 2 units, and the sum is rounded to them,
\* a half to the even neighbour.
Round360(x) ==
    IF x % 2 = 0 THEN x
    ELSE IF ((x + 1) \div 2) % 2 = 0 THEN x + 1 ELSE x - 1

\* the results of atan2( gradient_y[i], gradient_x[i] ) * 180.f / M_PI the
\* model draws: every 7.5 degrees of ( -180, 180 ], and TinyNegative, an
\* angle below 0 so small that 360 + angle rounds to 360
TinyNegative == -1

AtanDegs == {TinyNegative} \cup {4 * k : k \in -23..24}

\* angle = angle < 0 ? 360 + angle : angle (TowardsHalfTurn adds 180, as
\* get_direction does)
TowardsHalfTurn(angle) == IF angle < 0 THEN Deg(180) + angle ELSE angle

MapTo360(angle) == IF angle < 0 THEN Round360(Deg(360) + angle) ELSE angle

\* fmod( angle, 360 ), for angle >= 0
fmod360(angle) == angle % Deg(360)

\* the keys of angle_dir_map, in the ascending order std::map iterates them
angle_dir_map == <<Deg(0), Deg(45), Deg(90), Deg(135), Deg(180), Deg(225), Deg(270), Deg(315)>>

\* closest after the first k keys were visited (ClosestAfter_TieToLater
\* replaces the closest one on an equal distance too)
RECURSIVE ClosestAfter_TieToLater(_, _)
ClosestAfter_TieToLater(dir, k) ==
    IF k = 1 THEN angle_dir_map[1]
    ELSE LET closest == ClosestAfter_TieToLater(dir, k - 1)
         IN  IF Abs(dir - angle_dir_map[k]) <= Abs(dir - closest)
             THEN angle_dir_map[k] ELSE closest

RECURSIVE ClosestAfter(_, _)
ClosestAfter(dir, k) ==
    IF k = 1 THEN angle_dir_map[1]
    ELSE LET closest == ClosestAfter(dir, k - 1)
         IN  IF Abs(dir - angle_dir_map[k]) < Abs(dir - closest)
             THEN angle_dir_map[k] ELSE closest

\* the direction of one pixel: the index 0..7 of the closest key
DirectionOf(atan_deg) ==
    ClosestAfter(fmod360(MapTo360(atan_deg)), Len(angle_dir_map)) \div Deg(45)

\* get_direction2: a gradient is given by its atan2 in degrees
get_direction2(gradient_deg) ==
    [i \in 1..Len(gradient_deg) |-> DirectionOf(gradient_deg[i])]

\* _ir.directions = get_direction2( _ir.valid_gradient_x, _ir.valid_gradient_y )
GetDirections ==
    /\ pc = "z_directions"
    /\ _ir' = [_ir EXCEPT !.directions = get_direction2(_ir.valid_gradient_deg)]
    /\ pc' = "z_direction_per_pixel"
    /\ UNCHANGED <<_params, cb, scene, _original_calibration, _params_curr, _final_calibration,
                   _final_dsm_params, _z, cycle, last_cost, new_params, new_calib,
                   new_k_depth, new_dsm_params, n_iterations, cand, data, op, ls, cb_log, hist, _yuy>>

\* the variables of optimize while set_z_data runs
BeforeOptimize ==
    /\ cb = FALSE
    /\ scene = [sums |-> {}, diffs |-> {}]
    /\ _original_calibration = InputCalibration
    /\ Loaded
    /\ cycle = 0
    /\ data = [cycle |-> 0, type |-> "unset", iteration |-> 0]
    /\ op = NoOp
    /\ hist = NoHist

\* set_z_data reaches get_direction2 with the gradients of 1..MaxPixels
\* valid IR pixels
InitDir ==
    /\ pc = "z_directions"
    /\ _params \in Configs({1}, {1}, {1})
    /\ BeforeOptimize
    /\ _z = NoZ
    /\ _yuy = NoYuy
    /\ \E n \in 1..MaxPixels : \E g \in [1..n -> AtanDegs] :
        _ir = [valid_gradient_deg |-> g, directions |-> <<>>]

NextDir ==
    \/ GetDirections

\* the direction stage of set_z_data
SpecDir == InitDir /\ [][NextDir]_vars


\* ------------------------------ set_z_data: local maxima and sub-pixel edges
\* Images are row-major: entry row * width + col + 1 of a sequence holds
\* the pixel at the 0-based (row, col).  Locations are 1-based (grid_xy).

\* the elements of a set of numbers in ascending order
RECURSIVE Ascending(_)
Ascending(S) ==
    IF S = {} THEN <<>>
    ELSE LET least == CHOOSE x \in S : \A y \in S : x <= y
         IN  <<least>> \o Ascending(S \ {least})

\* sample_by_mask( filtered, origin, mask ): the entries of origin where the
\* mask is set, in row-major order
sample_by_mask(origin, mask) ==
    LET where == Ascending({x \in 1..Len(origin) : mask[x]})
    IN  [i \in 1..Len(where) |-> origin[where[i]]]

\* grid_xy: gridx holds the 1-based column of every pixel, gridy the row
grid_x(width, height) == [x \in 1..(width * height) |-> ((x - 1) % width) + 1]

grid_y(width, height) == [x \in 1..(width * height) |-> ((x - 1) \div width) + 1]

\* _ir.valid_location_rc: y and x of every valid pixel, interleaved
InterleaveRC(rc_y, rc_x) ==
    [i \in 1..(2 * Len(rc_x)) |-> IF i % 2 = 1 THEN rc_y[(i + 1) \div 2] ELSE rc_x[i \div 2]]

\* double directions[8][2]: the (row, column) step of every direction
directions == <<<<0, 1>>, <<1, 1>>, <<1, 0>>, <<1, -1>>,
                <<0, -1>>, <<-1, -1>>, <<-1, 0>>, <<-1, 1>>>>

\* taps that start three pixels against the direction
vec_ThreeBack == <<-3, -2, -1, 0>>

\* double vec[4] = { -2,-1,0,1 }
vec == <<-2, -1, 0, 1>>

\* _ir.direction_per_pixel: the two components of every pixel's direction
DirectionPerPixel ==
    /\ pc = "z_direction_per_pixel"
    /\ _ir' = [_ir EXCEPT !.direction_per_pixel =
                [i \in 1..(2 * Len(_ir.directions)) |->
                    IF i % 2 = 1 THEN directions[_ir.directions[(i + 1) \div 2] + 1][1]
                    ELSE directions[_ir.directions[i \div 2] + 1][2]]]
    /\ pc' = "z_local_region"
    /\ UNCHANGED <<_params, cb, scene, _original_calibration, _params_curr, _final_calibration,
                   _final_dsm_params, _z, cycle, last_cost, new_params, new_calib,
                   new_k_depth, new_dsm_params, n_iterations, cand, data, op, ls, cb_log, hist, _yuy>>

\* _ir.local_region[k], split into local_region_y[k] and local_region_x[k]
LocalRegion ==
    /\ pc = "z_local_region"
    /\ LET local_region == [k \in 1..4 |->
                [i \in 1..Len(_ir.direction_per_pixel) |->
                    _ir.valid_location_rc[i] + _ir.direction_per_pixel[i] * vec[k]]]
           n == Len(_ir.valid_location_rc_x)
       IN  _ir' = [_ir EXCEPT
                !.local_region = local_region,
                !.local_region_y = [k \in 1..4 |-> [j \in 1..n |-> local_region[k][2 * j - 1]]],
                !.local_region_x = [k \in 1..4 |-> [j \in 1..n |-> local_region[k][2 * j]]]]
    /\ pc' = "z_interpolation"
    /\ UNCHANGED <<_params, cb, scene, _original_calibration, _params_curr, _final_calibration,
                   _final_dsm_params, _z, cycle, last_cost, new_params, new_calib,
                   new_k_depth, new_dsm_params, n_iterations, cand, data, op, ls, cb_log, hist, _yuy>>

\* interpolation( grid_points, x, y, dim, valid_size, valid_width ): for
\* every pixel its dim values, looked up at ( x[k][i] - 1, y[k][i] - 1 )
interpolation(grid_points, x, y, dim, valid_size, valid_width) ==
    [e \in 1..(dim * valid_size) |->
        LET i == ((e - 1) \div dim) + 1
            k == ((e - 1) % dim) + 1
            idx == x[k][i] - 1
            idy == y[k][i] - 1
        IN  grid_points[valid_width * idy + idx + 1]]

\* every looked-up position is inside the image (a valid pixel is at least
\* two pixels away from the border, where the edges are 0)
TapsInside ==
    \A k \in 1..4 : \A i \in 1..Len(_ir.valid_location_rc_x) :
        /\ _ir.local_region_x[k][i] \in 1.._ir.width
        /\ _ir.local_region_y[k][i] \in 1.._ir.height

Interpolation ==
    /\ pc = "z_interpolation"
    /\ TapsInside
    /\ _ir' = [_ir EXCEPT !.local_edges =
                interpolation(_ir.edges, _ir.local_region_x, _ir.local_region_y, 4,
                              Len(_ir.valid_location_rc_x), _ir.width)]
    /\ pc' = "z_is_suppressed"
    /\ UNCHANGED <<_params, cb, scene, _original_calibration, _params_curr, _final_calibration,
                   _final_dsm_params, _z, cycle, last_cost, new_params, new_calib,
                   new_k_depth, new_dsm_params, n_iterations, cand, data, op, ls, cb_log, hist, _yuy>>

\* an is_suppressed that compares the first three values of a pixel
is_suppressed_TapsShifted(local_edges, valid_size) ==
    [i \in 1..valid_size |->
        LET vec2 == local_edges[4 * (i - 1) + 1]
            vec3 == local_edges[4 * (i - 1) + 2]
            vec4 == local_edges[4 * (i - 1) + 3]
        IN  (vec3 >= vec2) /\ (vec3 >= vec4)]

\* is_suppressed( local_edges, valid_size )
is_suppressed(local_edges, valid_size) ==
    [i \in 1..valid_size |->
        LET vec2 == local_edges[4 * (i - 1) + 2]
            vec3 == local_edges[4 * (i - 1) + 3]
            vec4 == local_edges[4 * (i - 1) + 4]
        IN  (vec3 >= vec2) /\ (vec3 >= vec4)]

IsSuppressed ==
    /\ pc = "z_is_suppressed"
    /\ _ir' = [_ir EXCEPT !.is_supressed =
                is_suppressed(_ir.local_edges, Len(_ir.valid_location_rc_x))]
    /\ pc' = "z_sub_pixel"
    /\ UNCHANGED <<_params, cb, scene, _original_calibration, _params_curr, _final_calibration,
                   _final_dsm_params, _z, cycle, last_cost, new_params, new_calib,
                   new_k_depth, new_dsm_params, n_iterations, cand, data, op, ls, cb_log, hist, _yuy>>

\* a fraq_step and a sub-pixel location are in thousandths of a pixel
SubPixelUnit == 1000

\* a step that is not guarded against a denominator of 0 (x / 0 is NaN in
\* the model)
fraq_step_Unguarded(vec2, vec3, vec4) ==
    Div(-(SubPixelUnit \div 2) * (vec4 - vec2), vec4 + vec2 - 2 * vec3)

\* a step without the factor 0.5
fraq_step_Whole(vec2, vec3, vec4) ==
    LET denom == vec4 + vec2 - 2 * vec3
    IN  IF denom = 0 THEN 0 ELSE Div(-SubPixelUnit * (vec4 - vec2), denom)

\* res = ( denom == 0 ) ? 0 : ( -0.5 * ( vec4 - vec2 ) / denom )
fraq_step(vec2, vec3, vec4) ==
    LET denom == vec4 + vec2 - 2 * vec3
    IN  IF denom = 0 THEN 0 ELSE Div(-(SubPixelUnit \div 2) * (vec4 - vec2), denom)

\* the loop over the valid pixels that fills _ir.fraq_step,
\* _z.local_rc_subpixel and _z.edge_sub_pixel
SubPixel ==
    /\ pc = "z_sub_pixel"
    /\ LET n == Len(_ir.valid_location_rc_x)
           res == [i \in 1..n |-> fraq_step(_ir.local_edges[4 * (i - 1) + 2],
                                            _ir.local_edges[4 * (i - 1) + 3],
                                            _ir.local_edges[4 * (i - 1) + 4])]
           valx == [i \in 1..n |-> Add(_ir.valid_location_rc[2 * i - 1] * SubPixelUnit,
                                       Mul(_ir.direction_per_pixel[2 * i - 1], res[i]))]
           valy == [i \in 1..n |-> Add(_ir.valid_location_rc[2 * i] * SubPixelUnit,
                                       Mul(_ir.direction_per_pixel[2 * i], res[i]))]
       IN  /\ _ir' = [_ir EXCEPT !.fraq_step = res]
           /\ _z' = [_z EXCEPT
                !.local_rc_subpixel = [e \in 1..(2 * n) |->
                    IF e % 2 = 1 THEN valx[(e + 1) \div 2] ELSE valy[e \div 2]],
                !.edge_sub_pixel = [e \in 1..(2 * n) |->
                    IF e % 2 = 1 THEN valy[(e + 1) \div 2] ELSE valx[e \div 2]]]
    /\ pc' = "z_depth_gradients"
    /\ UNCHANGED <<_params, cb, scene, _original_calibration, _params_curr, _final_calibration,
                   _final_dsm_params, cycle, last_cost, new_params, new_calib,
                   new_k_depth, new_dsm_params, n_iterations, cand, data, op, ls, cb_log, hist, _yuy>>


\* the sides of the IR and depth images are up to MaxSide pixels
MaxSide == 9

\* the edge strengths of the pixels are 0..MaxEdge
MaxEdge == 3

\* the 1-based place in a row-major image of the pixel at 0-based (row, col)
PixelAt(row, col, width) == row * width + col + 1

\* where the pixel under test is: all its four taps, which go from two
\* pixels against its direction to one pixel along it, are away from the
\* two outer rows and columns, that set_margin zeroes
TestRow(dir) == IF directions[dir + 1][1] < 0 THEN 3 ELSE 4

TestCol(dir) == IF directions[dir + 1][2] < 0 THEN 3 ELSE 4

\* the edge image with the strengths s[1..4] on the four taps of the pixel
\* under test, and 0 elsewhere
EdgeImage(dir, s, width, height) ==
    [x \in 1..(width * height) |->
        LET hit == {k \in 1..4 :
                        x = PixelAt(TestRow(dir) + directions[dir + 1][1] * vec[k],
                                    TestCol(dir) + directions[dir + 1][2] * vec[k], width)}
        IN  IF hit = {} THEN 0 ELSE s[CHOOSE k \in hit : TRUE]]

\* set_z_data after get_direction2: the edge image, the valid IR pixels
\* (those whose edge is above grad_ir_threshold) and their directions
IrAfterDirections(width, height, edges, direction_image, grad_ir_threshold) ==
    LET valid_edge_pixels_by_ir == [x \in 1..(width * height) |-> edges[x] > grad_ir_threshold]
        rc_x == sample_by_mask(grid_x(width, height), valid_edge_pixels_by_ir)
        rc_y == sample_by_mask(grid_y(width, height), valid_edge_pixels_by_ir)
    IN  [width |-> width, height |-> height, edges |-> edges,
         valid_location_rc_x |-> rc_x, valid_location_rc_y |-> rc_y,
         valid_location_rc |-> InterleaveRC(rc_y, rc_x),
         directions |-> sample_by_mask(direction_image, valid_edge_pixels_by_ir),
         direction_per_pixel |-> <<>>, local_region |-> <<>>,
         local_region_x |-> <<>>, local_region_y |-> <<>>,
         local_edges |-> <<>>, is_supressed |-> <<>>, fraq_step |-> <<>>,
         test |-> 0]

\* set_z_data after the direction stage, on an image of MaxSide columns and
\* MaxSide - 1 rows.  test is a ghost: the place of the pixel under test.
InitSub ==
    /\ pc = "z_direction_per_pixel"
    /\ BeforeOptimize
    /\ _z = NoZ
    /\ _yuy = NoYuy
    /\ \E grad_ir_threshold \in {0, 1} :
        _params = [grad_ir_threshold |-> grad_ir_threshold]
    /\ \E dir \in 0..7, other \in {0, 5}, s1 \in {0, MaxEdge},
          s2 \in 0..(MaxEdge - 1), s3 \in 1..MaxEdge, s4 \in 0..(MaxEdge - 1) :
        LET width == MaxSide
            height == MaxSide - 1
            test == PixelAt(TestRow(dir), TestCol(dir), width)
            direction_image == [x \in 1..(width * height) |-> IF x = test THEN dir ELSE other]
        IN  _ir = [IrAfterDirections(width, height,
                                     EdgeImage(dir, <<s1, s2, s3, s4>>, width, height),
                                     direction_image, _params.grad_ir_threshold)
                   EXCEPT !.test = test]

NextSub ==
    \/ DirectionPerPixel
    \/ LocalRegion
    \/ Interpolation
    \/ IsSuppressed
    \/ SubPixel

\* the local-maximum and sub-pixel stages of set_z_data
SpecSub == InitSub /\ [][NextSub]_vars


\* ------------------------------------------------ set_z_data: gradient stage
\* calc_intensity( image1, image2 )
calc_intensity(image1, image2) ==
    [x \in 1..Len(image1) |-> Sqrt(image1[x] * image1[x] + image2[x] * image2[x])]

horizontal_gradients == <<-1, -2, -1,
                           0,  0,  0,
                           1,  2,  1>>

vertical_gradients == <<-1, 0, 1,
                        -2, 0, 2,
                        -1, 0, 1>>

\* dot_product( sub_image, mask ) of the 3 x 3 sub-image whose top left
\* pixel is the 0-based (i, j)
dot_product(image, image_width, i, j, mask) ==
    LET term(l, k) == image[(i + l) * image_width + j + k + 1] * mask[3 * l + k + 1]
    IN  term(0, 0) + term(0, 1) + term(0, 2)
      + term(1, 0) + term(1, 1) + term(1, 2)
      + term(2, 0) + term(2, 1) + term(2, 2)

\* convolution with a 3 x 3 mask, each product divided by 8: res starts as
\* zeroes and gets a value at the middle of every sub-image
convolution(image, image_width, image_height, mask) ==
    [x \in 1..Len(image) |->
        LET row == (x - 1) \div image_width
            col == (x - 1) % image_width
        IN  IF row - 1 \in 0..(image_height - 3) /\ col - 1 \in 0..(image_width - 3)
            THEN Div(dot_product(image, image_width, row - 1, col - 1, mask), 8)
            ELSE 0]

calc_horizontal_gradient(image, image_width, image_height) ==
    convolution(image, image_width, image_height, horizontal_gradients)

calc_vertical_gradient(image, image_width, image_height) ==
    convolution(image, image_width, image_height, vertical_gradients)

\* a set_margin that zeroes the two rows only
set_margin_RowsOnly(gradient, width, height) ==
    [x \in 1..Len(gradient) |->
        LET row == (x - 1) \div width
        IN  IF row \in {1, height - 2} THEN 0 ELSE gradient[x]]

\* set_margin: zero the 2nd row and column, and the ones before the last
set_margin(gradient, width, height) ==
    [x \in 1..Len(gradient) |->
        LET row == (x - 1) \div width
            col == (x - 1) % width
        IN  IF row \in {1, height - 2} \/ col \in {1, width - 2} THEN 0 ELSE gradient[x]]

CalcGradients ==
    /\ pc = "z_gradients"
    /\ _z' = [_z EXCEPT
            !.gradient_x = calc_vertical_gradient(_z.frame, _z.width, _z.height),
            !.gradient_y = calc_horizontal_gradient(_z.frame, _z.width, _z.height)]
    /\ _ir' = [_ir EXCEPT
            !.gradient_x = calc_vertical_gradient(_ir.ir_frame, _z.width, _z.height),
            !.gradient_y = calc_horizontal_gradient(_ir.ir_frame, _z.width, _z.height)]
    /\ pc' = "z_margins"
    /\ UNCHANGED <<_params, cb, scene, _original_calibration, _params_curr, _final_calibration,
                   _final_dsm_params, cycle, last_cost, new_params, new_calib,
                   new_k_depth, new_dsm_params, n_iterations, cand, data, op, ls, cb_log, hist, _yuy>>

SetMargins ==
    /\ pc = "z_margins"
    /\ _z' = [_z EXCEPT
            !.gradient_x = set_margin(_z.gradient_x, _z.width, _z.height),
            !.gradient_y = set_margin(_z.gradient_y, _z.width, _z.height)]
    /\ _ir' = [_ir EXCEPT
            !.gradient_x = set_margin(_ir.gradient_x, _z.width, _z.height),
            !.gradient_y = set_margin(_ir.gradient_y, _z.width, _z.height)]
    /\ pc' = "z_edges"
    /\ UNCHANGED <<_params, cb, scene, _original_calibration, _params_curr, _final_calibration,
                   _final_dsm_params, cycle, last_cost, new_params, new_calib,
                   new_k_depth, new_dsm_params, n_iterations, cand, data, op, ls, cb_log, hist, _yuy>>

CalcEdges ==
    /\ pc = "z_edges"
    /\ _z' = [_z EXCEPT !.edges = calc_intensity(_z.gradient_x, _z.gradient_y)]
    /\ _ir' = [_ir EXCEPT !.edges = calc_intensity(_ir.gradient_x, _ir.gradient_y)]
    /\ pc' = "z_valid_edge_pixels"
    /\ UNCHANGED <<_params, cb, scene, _original_calibration, _params_curr, _final_calibration,
                   _final_dsm_params, cycle, last_cost, new_params, new_calib,
                   new_k_depth, new_dsm_params, n_iterations, cand, data, op, ls, cb_log, hist, _yuy>>

\* the images the gradient stage is run on: of one intensity, with one
\* pixel brighter than the rest, and brighter from a column or a row on.
\* Intensities are multiples of 8.
ConstantImage(width, height, level) == [x \in 1..(width * height) |-> level]

SpotImage(width, height, at) == [x \in 1..(width * height) |-> IF x = at THEN 16 ELSE 8]

ColumnStepImage(width, height, from) ==
    [x \in 1..(width * height) |-> IF (x - 1) % width >= from THEN 16 ELSE 0]

RowStepImage(width, height, from) ==
    [x \in 1..(width * height) |-> IF (x - 1) \div width >= from THEN 16 ELSE 0]

Images(width, height) ==
    {ConstantImage(width, height, level) : level \in {0, 8}}
        \cup {SpotImage(width, height, at) : at \in 1..(width * height)}
        \cup {ColumnStepImage(width, height, from) : from \in 1..(width - 1)}
        \cup {RowStepImage(width, height, from) : from \in 1..(height - 1)}

\* the IR frames: one intensity, a bright pixel next to the corner, a step
IrImages(width, height) ==
    {ConstantImage(width, height, 8), SpotImage(width, height, width + 2),
     ColumnStepImage(width, height, 2)}

\* the frames of the gradient stage have up to MaxFrameSide columns and rows
MaxFrameSide == 7

\* set_z_data before its gradient stage, with a depth frame and an IR frame
\* of 5..MaxFrameSide columns and rows
InitGrad ==
    /\ pc = "z_gradients"
    /\ BeforeOptimize
    /\ _yuy = NoYuy
    /\ _params \in Configs({1}, {1}, {1})
    /\ \E width \in 5..MaxFrameSide, height \in 5..MaxFrameSide :
        \E frame \in Images(width, height), ir_frame \in IrImages(width, height) :
            /\ _z = [width |-> width, height |-> height, frame |-> frame,
                     gradient_x |-> <<>>, gradient_y |-> <<>>, edges |-> <<>>]
            /\ _ir = [ir_frame |-> ir_frame,
                      gradient_x |-> <<>>, gradient_y |-> <<>>, edges |-> <<>>]

NextGrad ==
    \/ CalcGradients
    \/ SetMargins
    \/ CalcEdges

\* the gradient stage of set_z_data
SpecGrad == InitGrad /\ [][NextGrad]_vars


\* --------------------------------------------- set_z_data: the filter chain
\* An entry of a per-pixel array is [of |-> p, val |-> v]: the value v of
\* the p-th valid IR pixel.  Masks are sequences of booleans.

\* std::min of two doubles
Min(x, y) == IF y < x THEN y ELSE x

\* find_local_values_min( local_values ): the least of the 4 depth samples
\* of every pixel
find_local_values_min(local_values) ==
    [i \in 1..(Len(local_values) \div 4) |->
        LET val1 == local_values[4 * (i - 1) + 1]
            val2 == local_values[4 * (i - 1) + 2]
            val3 == local_values[4 * (i - 1) + 3]
            val4 == local_values[4 * (i - 1) + 4]
        IN  Min(val1, Min(val2, Min(val3, val4)))]

\* depth gradients and grad_z_threshold are in halves
GradUnit == 2

\* the int a double argument is converted to, for an int parameter: the
\* fraction is dropped
IntOfDouble(x) ==
    IF x < 0 THEN -(((-x) \div GradUnit) * GradUnit) ELSE (x \div GradUnit) * GradUnit

\* find_valid_depth_edges( grad_in_direction, is_supressed,
\*                         values_for_subedges, int const gradZTh )
find_valid_depth_edges(grad_in_direction, is_supressed, values_for_subedges, gradZTh) ==
    [i \in 1..Len(grad_in_direction) |->
        /\ grad_in_direction[i].val > gradZTh
        /\ is_supressed[i]
        /\ values_for_subedges[i].val > 0]

\* a depth_filter that takes every entry of origin
depth_filter_Unmasked(filtered, origin, valid_edge_by_ir, width, height) ==
    filtered \o origin

\* depth_filter( filtered, origin, valid_edge_by_ir, width, height ): appends
\* to filtered the entries of origin whose mask is set, column by column
depth_filter(filtered, origin, valid_edge_by_ir, width, height) ==
    LET idx == [n \in 1..(width * height) |->
                    ((n - 1) % height) * width + ((n - 1) \div height) + 1]
        taken == SelectSeq(idx, LAMBDA x : valid_edge_by_ir[x])
    IN  filtered \o [n \in 1..Len(taken) |-> origin[taken[n]]]

FindValidDepthEdges ==
    /\ pc = "z_supressed_edges"
    /\ _z' = [_z EXCEPT !.supressed_edges =
                find_valid_depth_edges(_z.grad_in_direction, _ir.is_supressed,
                                       _z.values_for_subedges,
                                       IntOfDouble(_params.grad_z_threshold))]
    /\ pc' = "z_depth_filter"
    /\ UNCHANGED <<_params, _ir, op, cycle>>
    /\ UNCHANGED <<cb, scene, _original_calibration, _params_curr, _final_calibration,
                   _final_dsm_params, last_cost, new_params, new_calib, new_k_depth,
                   new_dsm_params, n_iterations, cand, data, ls, cb_log, hist, _yuy>>

\* val = val + 1; val = val > 4 ? val - 4 : val, for every direction
EditedDirections(array) ==
    [i \in 1..Len(array) |->
        [array[i] EXCEPT !.val = IF @ + 1 > 4 THEN @ + 1 - 4 ELSE @ + 1]]

\* the depth_filter calls by _z.supressed_edges, and _z.sub_points
FilterBySupressedEdges ==
    /\ pc = "z_depth_filter"
    /\ LET size == Len(_z.supressed_edges)
           by(filtered, origin) == depth_filter(filtered, origin, _z.supressed_edges, 1, size)
           valid_edge_sub_pixel_x == by(_z.valid_edge_sub_pixel_x, op.edge_sub_pixel_x)
           valid_edge_sub_pixel_y == by(_z.valid_edge_sub_pixel_y, op.edge_sub_pixel_y)
           edited_ir_directions == EditedDirections(_ir.directions)
       IN  _z' = [_z EXCEPT
                !.grad_in_direction_valid = by(@, _z.grad_in_direction),
                !.valid_edge_sub_pixel_x = valid_edge_sub_pixel_x,
                !.valid_edge_sub_pixel_y = valid_edge_sub_pixel_y,
                !.sub_points = @ \o [i \in 1..Len(valid_edge_sub_pixel_x) |->
                    [of |-> valid_edge_sub_pixel_x[i].of,
                     val |-> <<valid_edge_sub_pixel_x[i].val - SubPixelUnit,
                               valid_edge_sub_pixel_y[i].val - SubPixelUnit,
                               SubPixelUnit>>]],
                !.valid_direction_per_pixel = by(@, op.direction_per_pixel_x),
                !.valid_section_map = by(@, _ir.valid_section_map),
                !.valid_directions = by(@, edited_ir_directions),
                !.values_for_subedges = by(<<>>, _z.values_for_subedges)]
    /\ pc' = "z_vertices_all"
    /\ UNCHANGED <<_params, _ir, op, cycle>>
    /\ UNCHANGED <<cb, scene, _original_calibration, _params_curr, _final_calibration,
                   _final_dsm_params, last_cost, new_params, new_calib, new_k_depth,
                   new_dsm_params, n_iterations, cand, data, ls, cb_log, hist, _yuy>>

\* transform with bind2nd( std::plus<double>(), -1.0 ), on locations in
\* thousandths of a pixel
MinusOne(array) == [i \in 1..Len(array) |-> [array[i] EXCEPT !.val = @ - SubPixelUnit]]

\* the 0-based sub-pixels, and _z.vertices_all: every sub point, times the
\* inverse of the depth intrinsics (taken as the unit matrix), times the
\* depth of its pixel, divided by max_sub_mm_z
BackProject ==
    /\ pc = "z_vertices_all"
    /\ _z' = [_z EXCEPT
            !.valid_edge_sub_pixel_x = MinusOne(@),
            !.valid_edge_sub_pixel_y = MinusOne(@),
            !.vertices_all = @ \o [i \in 1..Len(_z.sub_points) |->
                LET z_value_for_subedge == _z.values_for_subedges[i].val
                    sub_points_mult == _z.sub_points[i].val
                IN  [of |-> _z.sub_points[i].of,
                     val |-> [jj \in 1..3 |->
                        Div(sub_points_mult[jj] * z_value_for_subedge,
                            _params.max_sub_mm_z)]]]]
    /\ pc' = "z_uvmap"
    /\ UNCHANGED <<_params, _ir, op, cycle>>
    /\ UNCHANGED <<cb, scene, _original_calibration, _params_curr, _final_calibration,
                   _final_dsm_params, last_cost, new_params, new_calib, new_k_depth,
                   new_dsm_params, n_iterations, cand, data, ls, cb_log, hist, _yuy>>

\* get_texture_map gives every vertex a point of the colour image plane
GetTextureMap ==
    /\ pc = "z_uvmap"
    /\ \E uv \in [1..Len(_z.vertices_all) -> scene.uv] :
        _z' = [_z EXCEPT !.uvmap =
            [i \in 1..Len(_z.vertices_all) |->
                [of |-> _z.vertices_all[i].of, x |-> uv[i][1], y |-> uv[i][2]]]]
    /\ pc' = "z_is_inside"
    /\ UNCHANGED <<_params, _ir, op, cycle>>
    /\ UNCHANGED <<cb, scene, _original_calibration, _params_curr, _final_calibration,
                   _final_dsm_params, last_cost, new_params, new_calib, new_k_depth,
                   new_dsm_params, n_iterations, cand, data, ls, cb_log, hist, _yuy>>

\* an in-bounds test that takes the width and the height as inside
IsInside_UpToSize ==
    /\ pc = "z_is_inside"
    /\ _z' = [_z EXCEPT !.is_inside = @ \o [i \in 1..Len(_z.uvmap) |->
            LET cond_x == (_z.uvmap[i].x >= 0) /\ (_z.uvmap[i].x <= _yuy.width)
                cond_y == (_z.uvmap[i].y >= 0) /\ (_z.uvmap[i].y <= _yuy.height)
            IN  cond_x /\ cond_y]]
    /\ pc' = "z_inside_filter"
    /\ UNCHANGED <<_params, _ir, op, cycle>>
    /\ UNCHANGED <<cb, scene, _original_calibration, _params_curr, _final_calibration,
                   _final_dsm_params, last_cost, new_params, new_calib, new_k_depth,
                   new_dsm_params, n_iterations, cand, data, ls, cb_log, hist, _yuy>>

IsInside ==
    /\ pc = "z_is_inside"
    /\ _z' = [_z EXCEPT !.is_inside = @ \o [i \in 1..Len(_z.uvmap) |->
            LET cond_x == (_z.uvmap[i].x >= 0) /\ (_z.uvmap[i].x <= _yuy.width - 1)
                cond_y == (_z.uvmap[i].y >= 0) /\ (_z.uvmap[i].y <= _yuy.height - 1)
            IN  cond_x /\ cond_y]]
    /\ pc' = "z_inside_filter"
    /\ UNCHANGED <<_params, _ir, op, cycle>>
    /\ UNCHANGED <<cb, scene, _original_calibration, _params_curr, _final_calibration,
                   _final_dsm_params, last_cost, new_params, new_calib, new_k_depth,
                   new_dsm_params, n_iterations, cand, data, ls, cb_log, hist, _yuy>>

\* _z.valid_weights and the depth_filter calls by _z.is_inside
FilterByIsInside ==
    /\ pc = "z_inside_filter"
    /\ LET size == Len(_z.is_inside)
           by(filtered, origin) == depth_filter(filtered, origin, _z.is_inside, 1, size)
           valid_weights == _z.valid_weights \o [i \in 1..size |->
                                [of |-> _z.uvmap[i].of, val |-> _params.constant_weights]]
       IN  _z' = [_z EXCEPT
                !.valid_weights = valid_weights,
                !.subpixels_x = by(@, _z.valid_edge_sub_pixel_x),
                !.subpixels_y = by(@, _z.valid_edge_sub_pixel_y),
                !.closest = by(@, _z.values_for_subedges),
                !.grad_in_direction_inside = by(@, _z.grad_in_direction_valid),
                !.directions = by(@, _z.valid_directions),
                !.vertices = by(@, _z.vertices_all),
                !.section_map_depth_inside = by(@, _z.valid_section_map),
                !.weights = by(@, valid_weights)]
    /\ pc' = "z_filtered"
    /\ UNCHANGED <<_params, _ir, op, cycle>>
    /\ UNCHANGED <<cb, scene, _original_calibration, _params_curr, _final_calibration,
                   _final_dsm_params, last_cost, new_params, new_calib, new_k_depth,
                   new_dsm_params, n_iterations, cand, data, ls, cb_log, hist, _yuy>>

\* optimize up to its cycles: the evaluations of the cost and of the
\* gradient read the per-vertex arrays, _z.orig_vertices = _z.vertices
FirstEvaluations ==
    /\ pc = "z_filtered"
    /\ _z' = [_z EXCEPT !.orig_vertices = _z.vertices]
    /\ cycle' = 1
    /\ pc' = "z_cycles"
    /\ UNCHANGED <<_params, _ir, op>>
    /\ UNCHANGED <<cb, scene, _original_calibration, _params_curr, _final_calibration,
                   _final_dsm_params, last_cost, new_params, new_calib, new_k_depth,
                   new_dsm_params, n_iterations, cand, data, ls, cb_log, hist, _yuy>>

\* the vertices convert_new_k_to_DSM recomputes: those of the same pixels,
\* moved
Recomputed(vertices) ==
    [i \in 1..Len(vertices) |->
        [vertices[i] EXCEPT !.val = [jj \in 1..3 |-> vertices[i].val[jj] + 1]]]

\* one cycle of optimize: _z.vertices = new_vertices, and the evaluations
\* of the run of optimize_p that follows
CycleVertices ==
    /\ pc = "z_cycles"
    /\ cycle < _params.max_K2DSM_iters
    /\ cycle' = cycle + 1
    /\ LET new_vertices == Recomputed(_z.orig_vertices)
       IN  _z' = [_z EXCEPT !.vertices = new_vertices]
    /\ UNCHANGED <<pc, _params, _ir, op>>
    /\ UNCHANGED <<cb, scene, _original_calibration, _params_curr, _final_calibration,
                   _final_dsm_params, last_cost, new_params, new_calib, new_k_depth,
                   new_dsm_params, n_iterations, cand, data, ls, cb_log, hist, _yuy>>

\* the arrays set_z_data has at its filter chain, for the pixels 1..n: a
\* pixel is a local maximum or not, its depth gradient is at the threshold
\* or above it, and its depth is 0 or not
PerPixel(vals) == [p \in 1..Len(vals) |-> [of |-> p, val |-> vals[p]]]

\* set_z_data on a fresh optimizer, before find_valid_depth_edges, for
\* some valid IR pixels; the colour frame is 4 x 3
FilterStart(pixels, grad_z_thresholds, grads, k2dsm, uvs) ==
    /\ pc = "z_supressed_edges"
    /\ cb = FALSE
    /\ _original_calibration = InputCalibration
    /\ Loaded
    /\ cycle = 0
    /\ data = [cycle |-> 0, type |-> "unset", iteration |-> 0]
    /\ hist = NoHist
    /\ _yuy = [width |-> 4, height |-> 3]
    /\ scene = [uv |-> uvs]
    /\ \E k2dsm_iters \in k2dsm, grad_z_threshold \in grad_z_thresholds :
        _params = [grad_z_threshold |-> grad_z_threshold, constant_weights |-> 1,
                   max_sub_mm_z |-> 2, max_K2DSM_iters |-> k2dsm_iters]
    /\ \E n \in pixels :
        \E is_supressed \in [1..n -> BOOLEAN], grad \in [1..n -> grads],
           depth \in [1..n -> {0, 4}] :
            /\ _ir = [is_supressed |-> is_supressed,
                      directions |-> PerPixel([p \in 1..n |-> (3 * p) % 8]),
                      valid_section_map |-> PerPixel([p \in 1..n |-> p % 4])]
            /\ op = [site |-> "set_z_data",
                     edge_sub_pixel_x |-> PerPixel([p \in 1..n |-> (3 + p) * SubPixelUnit]),
                     edge_sub_pixel_y |->
                        PerPixel([p \in 1..n |-> (3 + 2 * p) * SubPixelUnit]),
                     direction_per_pixel_x |->
                        PerPixel([p \in 1..n |-> directions[((3 * p) % 8) + 1][1]])]
            /\ LET local_values == [e \in 1..(4 * n) |->
                        depth[((e - 1) \div 4) + 1] + <<2, 1, 0, 3>>[((e - 1) % 4) + 1]]
               IN _z = [grad_in_direction |-> PerPixel([p \in 1..n |-> grad[p]]),
                     local_values |-> local_values,
                     values_for_subedges |-> PerPixel(find_local_values_min(local_values)),
                     supressed_edges |-> <<>>, grad_in_direction_valid |-> <<>>,
                     valid_edge_sub_pixel_x |-> <<>>, valid_edge_sub_pixel_y |-> <<>>,
                     sub_points |-> <<>>, valid_direction_per_pixel |-> <<>>,
                     valid_section_map |-> <<>>, valid_directions |-> <<>>,
                     vertices_all |-> <<>>, uvmap |-> <<>>, is_inside |-> <<>>,
                     valid_weights |-> <<>>, subpixels_x |-> <<>>, subpixels_y |-> <<>>,
                     closest |-> <<>>, grad_in_direction_inside |-> <<>>,
                     directions |-> <<>>, vertices |-> <<>>,
                     section_map_depth_inside |-> <<>>, weights |-> <<>>,
                     orig_vertices |-> <<>>]

\* up to MaxPixels + 1 pixels, with a depth gradient of 1 or 2 and a
\* threshold of 1
InitFilter ==
    FilterStart(1..(MaxPixels + 1), {2}, {2, 4}, 1..(MaxK2DSMIters + 1), {<<3, 2>>, <<4, 2>>})

\* up to MaxPixels pixels, with a depth gradient of 1, 1.5 or 2 and a
\* threshold of 1 or 1.5
InitEdges == FilterStart(1..MaxPixels, {2, 3}, {2, 3, 4}, {1}, {<<3, 2>>})

NextEdges ==
    \/ FindValidDepthEdges
    \/ FilterBySupressedEdges

\* the depth-domain filter of set_z_data
SpecEdges == InitEdges /\ [][NextEdges]_vars

\* up to MaxPixels + 1 pixels, whose vertices are projected on a corner of
\* the colour image or just outside one of its four sides
InitInside ==
    FilterStart(1..(MaxPixels + 1), {2}, {4}, {1},
                {<<0, 0>>, <<3, 2>>, <<-1, 0>>, <<4, 2>>, <<0, -1>>, <<3, 3>>})

NextInside ==
    \/ FindValidDepthEdges
    \/ FilterBySupressedEdges
    \/ BackProject
    \/ GetTextureMap
    \/ IsInside
    \/ FilterByIsInside

\* set_z_data from its depth-domain filter to its in-bounds filter
SpecInside == InitInside /\ [][NextInside]_vars

NextFilter ==
    \/ FindValidDepthEdges
    \/ FilterBySupressedEdges
    \/ BackProject
    \/ GetTextureMap
    \/ IsInside
    \/ FilterByIsInside
    \/ FirstEvaluations
    \/ CycleVertices

\* the filter chain of set_z_data, and the vertices of the cycles of optimize
SpecFilter == InitFilter /\ [][NextFilter]_vars


\* ------------------------- set_z_data: from the frames to the relevant pixels
\* _ir.valid_edge_pixels_by_ir and what is sampled by it: the locations of
\* the valid IR pixels and their directions.  get_direction2 gives every
\* valid pixel one of the directions 0..7; the model draws them as
\* ( first + turn * pixel ) % 8.
ValidEdgePixels ==
    /\ pc = "z_valid_edge_pixels"
    /\ \E first \in 0..7, turn \in {0, 3} :
        _ir' = IrAfterDirections(_z.width, _z.height, _ir.edges,
                                 [x \in 1..(_z.width * _z.height) |-> (first + turn * x) % 8],
                                 _params.grad_ir_threshold)
    /\ pc' = "z_direction_per_pixel"
    /\ UNCHANGED <<_params, cb, scene, _original_calibration, _params_curr, _final_calibration,
                   _final_dsm_params, _z, cycle, last_cost, new_params, new_calib,
                   new_k_depth, new_dsm_params, n_iterations, cand, data, op, ls, cb_log, hist, _yuy>>

\* depth_mean( local_x, local_y ): for every pixel the mean of its two
\* samples of local_y, then of local_x.  The samples are whole numbers and
\* the means are in halves (GradUnit).
depth_mean(local_x, local_y) ==
    [e \in 1..Len(local_x) |->
        LET i == (e + 1) \div 2
        IN  IF e % 2 = 1 THEN local_y[2 * i - 1] + local_y[2 * i]
            ELSE local_x[2 * i - 1] + local_x[2 * i]]

\* sqrt( 2 ), in thousandths
Sqrt2 == 1414

\* sum_gradient_depth( gradient, direction_per_pixel ): the size of the
\* gradient along the direction, the direction being divided by
\* sqrt( abs( d1 ) + abs( d2 ) ), which is 1 or sqrt( 2 )
sum_gradient_depth(gradient, direction_per_pixel) ==
    [i \in 1..(Len(direction_per_pixel) \div 2) |->
        LET d1 == direction_per_pixel[2 * i - 1]
            d2 == direction_per_pixel[2 * i]
            val == Abs(gradient[2 * i - 1] * d1 + gradient[2 * i] * d2)
        IN  IF Abs(d1) + Abs(d2) = 2 THEN (val * SubPixelUnit) \div Sqrt2 ELSE val]

\* the 0-based index interpolation reads for tap k of valid pixel i
TapIndex(k, i) ==
    _ir.width * (_ir.local_region_y[k][i] - 1) + (_ir.local_region_x[k][i] - 1)

\* the depth gradients and the depth at the taps of every valid pixel, and
\* what the filter chain reads: _z.grad_in_direction, _z.values_for_subedges
\* and the locals edge_sub_pixel_x, edge_sub_pixel_y, direction_per_pixel_x.
\* From here on an entry of a per-pixel array carries its pixel.
LocalDepth ==
    /\ pc = "z_depth_gradients"
    /\ TapsInside
    /\ LET n == Len(_ir.valid_location_rc_x)
           local_region_x == <<_ir.local_region_x[2], _ir.local_region_x[3]>>
           local_region_y == <<_ir.local_region_y[2], _ir.local_region_y[3]>>
           local_x == interpolation(_z.gradient_x, local_region_x, local_region_y, 2, n, _z.width)
           local_y == interpolation(_z.gradient_y, local_region_x, local_region_y, 2, n, _z.width)
           gradient == depth_mean(local_x, local_y)
           local_values == interpolation(_z.frame, _ir.local_region_x, _ir.local_region_y,
                                         4, n, _z.width)
       IN  /\ _z' = [_z EXCEPT
                !.local_x = local_x,
                !.local_y = local_y,
                !.gradient = gradient,
                !.grad_in_direction =
                    PerPixel(sum_gradient_depth(gradient, _ir.direction_per_pixel)),
                !.local_values = local_values,
                !.values_for_subedges = PerPixel(find_local_values_min(local_values))]
           /\ op' = [site |-> "set_z_data",
                     edge_sub_pixel_x |-> PerPixel([p \in 1..n |-> _z.edge_sub_pixel[2 * p - 1]]),
                     edge_sub_pixel_y |-> PerPixel([p \in 1..n |-> _z.edge_sub_pixel[2 * p]]),
                     direction_per_pixel_x |->
                        PerPixel([p \in 1..n |-> _ir.direction_per_pixel[2 * p - 1]])]
           /\ _ir' = [width |-> _ir.width, height |-> _ir.height,
                      valid_location_rc_x |-> _ir.valid_location_rc_x,
                      valid_location_rc_y |-> _ir.valid_location_rc_y,
                      is_supressed |-> _ir.is_supressed,
                      fraq_step |-> _ir.fraq_step,
                      directions |-> PerPixel(_ir.directions),
                      valid_section_map |-> PerPixel([p \in 1..n |-> 0])]
    /\ pc' = "z_supressed_edges"
    /\ UNCHANGED <<_params, cb, scene, _original_calibration, _params_curr, _final_calibration,
                   _final_dsm_params, cycle, last_cost, new_params, new_calib,
                   new_k_depth, new_dsm_params, n_iterations, cand, data, ls, cb_log, hist, _yuy>>

\* round( x ) of a location in thousandths of a pixel, as a whole number of
\* pixels: a half goes away from 0
Round(x) ==
    IF x >= 0 THEN (x + (SubPixelUnit \div 2)) \div SubPixelUnit
    ELSE -((-x + (SubPixelUnit \div 2)) \div SubPixelUnit)

\* round( x + 1 ) of every sub-pixel coordinate
RoundPlusOne(subpixels) == [i \in 1..Len(subpixels) |-> Round(subpixels[i].val + SubPixelUnit)]

\* the 0-based index size_t( ( y - 1 ) * _z.width + x - 1 ) of retained
\* pixel i
RelevantIndex(i) ==
    (_z.subpixels_y_round[i] - 1) * _z.width + _z.subpixels_x_round[i] - 1

\* _z.relevant_pixels_image: 0 everywhere but at the rounded location of
\* every retained pixel; a write outside the vector is not a write to it
RelevantPixelsImage ==
    /\ pc = "z_filtered"
    /\ LET sub_pixel_x == RoundPlusOne(_z.subpixels_x)
           sub_pixel_y == RoundPlusOne(_z.subpixels_y)
           at(i) == (sub_pixel_y[i] - 1) * _z.width + sub_pixel_x[i] - 1
       IN  _z' = [_z EXCEPT
                !.subpixels_x_round = sub_pixel_x,
                !.subpixels_y_round = sub_pixel_y,
                !.relevant_pixels_image = [x \in 1..(_z.width * _z.height) |->
                    IF \E i \in 1..Len(sub_pixel_x) : at(i) + 1 = x THEN 1 ELSE 0]]
    /\ pc' = "z_relevant"
    /\ UNCHANGED <<_params, _ir, op, cycle>>
    /\ UNCHANGED <<cb, scene, _original_calibration, _params_curr, _final_calibration,
                   _final_dsm_params, last_cost, new_params, new_calib, new_k_depth,
                   new_dsm_params, n_iterations, cand, data, ls, cb_log, hist, _yuy>>

\* set_z_data on a fresh optimizer, with a depth frame and an IR frame of
\* 5..MaxFrameSide - 1 columns and rows that have a brighter (farther) pixel
\* at the same place or a step; the colour frame is 4 x 3
InitZ ==
    /\ pc = "z_gradients"
    /\ cb = FALSE
    /\ _original_calibration = InputCalibration
    /\ Loaded
    /\ cycle = 0
    /\ data = [cycle |-> 0, type |-> "unset", iteration |-> 0]
    /\ op = NoOp
    /\ hist = NoHist
    /\ _yuy = [width |-> 4, height |-> 3]
    /\ scene = [uv |-> {<<3, 2>>, <<4, 2>>}]
    /\ \E grad_ir_threshold \in {0, 1} :
        _params = [grad_ir_threshold |-> grad_ir_threshold, grad_z_threshold |-> 0,
                   constant_weights |-> 1, max_sub_mm_z |-> 2, max_K2DSM_iters |-> 1]
    /\ \E width \in 5..(MaxFrameSide - 1), height \in 5..(MaxFrameSide - 1) :
        \E at \in 1..(width * height) :
            \E ir_frame \in {SpotImage(width, height, at),
                             ColumnStepImage(width, height, ((at - 1) % width) + 1)} :
                /\ _ir = [ir_frame |-> ir_frame,
                          gradient_x |-> <<>>, gradient_y |-> <<>>, edges |-> <<>>]
                /\ _z = [width |-> width, height |-> height,
                         frame |-> SpotImage(width, height, at),
                         gradient_x |-> <<>>, gradient_y |-> <<>>, edges |-> <<>>,
                         local_rc_subpixel |-> <<>>, edge_sub_pixel |-> <<>>,
                         local_x |-> <<>>, local_y |-> <<>>, gradient |-> <<>>,
                         grad_in_direction |-> <<>>, local_values |-> <<>>,
                         values_for_subedges |-> <<>>,
                         supressed_edges |-> <<>>, grad_in_direction_valid |-> <<>>,
                         valid_edge_sub_pixel_x |-> <<>>, valid_edge_sub_pixel_y |-> <<>>,
                         sub_points |-> <<>>, valid_direction_per_pixel |-> <<>>,
                         valid_section_map |-> <<>>, valid_directions |-> <<>>,
                         vertices_all |-> <<>>, uvmap |-> <<>>, is_inside |-> <<>>,
                         valid_weights |-> <<>>, subpixels_x |-> <<>>, subpixels_y |-> <<>>,
                         closest |-> <<>>, grad_in_direction_inside |-> <<>>,
                         directions |-> <<>>, vertices |-> <<>>,
                         section_map_depth_inside |-> <<>>, weights |-> <<>>,
                         orig_vertices |-> <<>>,
                         subpixels_x_round |-> <<>>, subpixels_y_round |-> <<>>,
                         relevant_pixels_image |-> <<>>]

NextZ ==
    \/ CalcGradients
    \/ SetMargins
    \/ CalcEdges
    \/ ValidEdgePixels
    \/ DirectionPerPixel
    \/ LocalRegion
    \/ Interpolation
    \/ IsSuppressed
    \/ SubPixel
    \/ LocalDepth
    \/ FindValidDepthEdges
    \/ FilterBySupressedEdges
    \/ BackProject
    \/ GetTextureMap
    \/ IsInside
    \/ FilterByIsInside
    \/ RelevantPixelsImage

\* set_z_data, from its gradient stage to _z.relevant_pixels_image
SpecZ == InitZ /\ [][NextZ]_vars


\* ------------------------------------------- calc_p_gradients, per vertex
\* std::numeric_limits<double>::max(), the no-data value of a sample
MaxDouble == 999999

\* a count that takes every vertex as contributing
ValidsAfter_EveryVertex(i, interp_IDT_x, interp_IDT_y) == i

\* sum_of_valids after the first i vertices
RECURSIVE ValidsAfter(_, _, _)
ValidsAfter(i, interp_IDT_x, interp_IDT_y) ==
    IF i = 0 THEN 0
    ELSE IF interp_IDT_x[i] = MaxDouble \/ interp_IDT_y[i] = MaxDouble
         THEN ValidsAfter(i - 1, interp_IDT_x, interp_IDT_y)
         ELSE ValidsAfter(i - 1, interp_IDT_x, interp_IDT_y) + 1

\* sums after the first i vertices
RECURSIVE SumsAfter(_, _, _, _, _)
SumsAfter(i, w, interp_IDT_x, interp_IDT_y, coefs) ==
    IF i = 0 THEN <<0, 0>>
    ELSE LET sums == SumsAfter(i - 1, w, interp_IDT_x, interp_IDT_y, coefs)
         IN  IF interp_IDT_x[i] = MaxDouble \/ interp_IDT_y[i] = MaxDouble
             THEN sums
             ELSE [j \in 1..2 |->
                    Add(sums[j], Mul(w[i], Add(Mul(interp_IDT_x[i], coefs.x_coeffs[i][j]),
                                               Mul(interp_IDT_y[i], coefs.y_coeffs[i][j]))))]

\* the loop over the vertices
AccumulateGradients ==
    /\ pc = "g_sums"
    /\ op' = [op EXCEPT
            !.sums = SumsAfter(Len(op.coefs.x_coeffs), op.w, op.interp_IDT_x,
                               op.interp_IDT_y, op.coefs),
            !.sum_of_valids = ValidsAfter(Len(op.coefs.x_coeffs), op.interp_IDT_x,
                                          op.interp_IDT_y)]
    /\ pc' = "g_averages"
    /\ UNCHANGED <<_params, cb, scene, _original_calibration, _params_curr, _final_calibration,
                   _final_dsm_params, _z, cycle, last_cost, new_params, new_calib,
                   new_k_depth, new_dsm_params, n_iterations, cand, data, ls, cb_log, hist,
                   _ir, _yuy>>

\* averages.vals[i] = sums.vals[i] / sum_of_valids for i < 8, and the return
AverageGradients ==
    /\ pc = "g_averages"
    /\ op' = [op EXCEPT !.averages = calc_p_gradients(op.sums[1], op.sum_of_valids)]
    /\ pc' = "g_done"
    /\ UNCHANGED <<_params, cb, scene, _original_calibration, _params_curr, _final_calibration,
                   _final_dsm_params, _z, cycle, last_cost, new_params, new_calib,
                   new_k_depth, new_dsm_params, n_iterations, cand, data, ls, cb_log, hist,
                   _ir, _yuy>>

\* a call of calc_p_gradients on 1..MaxPixels vertices: each has a weight,
\* two samples, either of which can be the no-data value, and coefficients
InitPGrad ==
    /\ pc = "g_sums"
    /\ _params \in Configs({1}, {1}, {1})
    /\ cb = FALSE
    /\ scene = [sums |-> {}, diffs |-> {}]
    /\ _original_calibration = InputCalibration
    /\ Loaded
    /\ _z = ZData
    /\ _ir = NoIr
    /\ _yuy = NoYuy
    /\ cycle = 1
    /\ data = [cycle |-> 1, type |-> "iteration_data", iteration |-> 0]
    /\ hist = NoHist
    /\ \E n \in 1..MaxPixels :
        \E w \in [1..n -> {1, 2}], interp_IDT_x \in [1..n -> {MaxDouble, 3}],
           interp_IDT_y \in [1..n -> {MaxDouble, -2}], x_coeff \in [1..n -> {1, 4}] :
            op = [site |-> "calc_p_gradients", w |-> w,
                  interp_IDT_x |-> interp_IDT_x, interp_IDT_y |-> interp_IDT_y,
                  coefs |-> [x_coeffs |-> [i \in 1..n |-> <<x_coeff[i], 1>>],
                             y_coeffs |-> [i \in 1..n |-> <<1, i>>]],
                  sums |-> <<0, 0>>, sum_of_valids |-> 0, averages |-> <<0, 0>>]

NextPGrad ==
    \/ AccumulateGradients
    \/ AverageGradients

\* calc_p_gradients alone
SpecPGrad == InitPGrad /\ [][NextPGrad]_vars


\* ---------------------------------------------------------- specifications
Next ==
    \/ OptimizeStart
    \/ CalcCostAndGrad
    \/ LineSearchStart
    \/ BackTrack
    \/ LineSearchReturn
    \/ IterationEnd
    \/ OptimizePReturnFirst
    \/ OptimizePReturnCandidate
    \/ CycleStart
    \/ CycleReject
    \/ CycleAccept
    \/ Finish

\* one call of optimize
Spec == Init /\ [][Next]_vars

NextP ==
    \/ CalcCostAndGrad
    \/ LineSearchStart
    \/ BackTrack
    \/ LineSearchReturn
    \/ IterationEnd

\* one call of optimize_p, up to its return
SpecP == InitP /\ [][NextP]_vars

NextLS ==
    \/ LineSearchStart
    \/ BackTrack
    \/ LineSearchReturn

\* one call of back_tracking_line_search
SpecLS == InitLS /\ [][NextLS]_vars

\* ------------------------------------------------------------- properties
\* C1 (as stated): a call of optimize_p runs at most
\* max_optimization_iters loop bodies and returns a count that is at most
\* max_optimization_iters, for every configured maximum, 0 included.
C1_InnerLoopWithinCap ==
    /\ hist.bodies <= _params.max_optimization_iters
    /\ pc = "p_ret" => op.n <= _params.max_optimization_iters

\* C2 (as stated): a call of optimize starts at most max_K2DSM_iters cycles
\* (calls of optimize_p), for every configured maximum, 0 included.
C2_CyclesWithinCap ==
    /\ cycle <= _params.max_K2DSM_iters
    /\ hist.p_calls <= _params.max_K2DSM_iters

\* C3 (as stated): when back_tracking_line_search returns, either the step
\* was accepted and the returned state's cost is not above the input
\* state's, or the step was rejected and the returned state is the input
\* state.
C3_SearchNeverIncreasesCost ==
    pc = "p_cb" =>
        \/ /\ Lt(ls.diff, Mul(ls.step_size, ls.t))
           /\ Ge(ls.curr_params.cost, op.params_new.cost)
        \/ op.params_new = ls.curr_params

\* C4: when the loop of back_tracking_line_search was ended by the step-size
\* floor or by the iteration bound, and diff < step_size * t does not hold
\* for the last step tried, the state returned is the input state, in every
\* field.
C4_NoAcceptedStepReturnsInput ==
    (pc = "p_cb" /\ ls.exit \in {"floor", "bound"}
        /\ ~Lt(ls.diff, Mul(ls.step_size, ls.t)))
    => op.params_new = ls.curr_params

\* C4 happens: the step was halved, the floor or the bound ended the loop,
\* and the input state came back although the candidate differed from it
C4_Witness ==
    /\ pc = "p_cb"
    /\ ls.exit \in {"floor", "bound"}
    /\ hist.shrinks >= 1
    /\ ls.new_params # ls.curr_params
    /\ op.params_new = ls.curr_params

\* the optimizer maximises: the search steps along +unit_grad and optimize
\* stops on a lower cost, so a cost improves on another when it is higher
Improves(candidate_cost, reference_cost) == Gt(candidate_cost, reference_cost)

C6_ReferenceIsBaselineCost ==
    pc = "cycle_cmp" => last_cost = new_params.cost

\* the cycle whose inner-loop run produced the baseline optimize ended with
LastAcceptedCycle == IF hist.accepted = 0 THEN 1 ELSE hist.accepted

\* C7: after a candidate was rejected, the final calibration and the
\* secondary model given to the clamp are both those of the last accepted
\* cycle, and nothing of the rejected candidate is in them.
C7_FinalsFromLastAccepted ==
    (pc = "done" /\ hist.rejected # 0)
    => /\ get_calibration.by = LastAcceptedCycle
       /\ get_dsm_params.by = LastAcceptedCycle
       /\ LastAcceptedCycle < hist.rejected
       /\ cand.calib.by = hist.rejected
       /\ cand.dsm.by = hist.rejected
       /\ get_dsm_params = clip_ac_scaling(_z.orig_dsm_params, new_dsm_params)

\* C7 happens: optimize ended after a rejection, and the rejected candidate
\* differed from the baseline in its calibration and its secondary model
C7_Witness ==
    /\ pc = "done"
    /\ hist.rejected = cycle
    /\ cycle >= 2
    /\ cand.calib # get_calibration
    /\ cand.dsm.scale # new_dsm_params.scale
    /\ get_calibration.by = LastAcceptedCycle

\* C8 (as stated): after optimize, get_cost is the cost of the accepted
\* baseline whose calibration get_calibration reports.
C8_GetCostIsBaselineCost ==
    pc = "done" => (get_calibration = new_calib /\ get_cost = new_params.cost)

\* C9 (as stated): when the inner loop of some cycle ended on its cap,
\* optimize returns max_optimization_iters.
C9_CapExhaustedReturnsCap ==
    (pc = "done" /\ hist.capped # {}) => hist.returned = _params.max_optimization_iters

\* the number of calls made to the callback with this type in this cycle
CbCalls(type, c) ==
    Cardinality({i \in 1..Len(cb_log) : cb_log[i][1] = type /\ cb_log[i][2] = c})

\* the loop bodies of the running (or last) optimize_p call that reached
\* their callback
BodiesPastCallback ==
    IF pc \in {"ls_start", "ls_loop", "p_cb"} THEN hist.bodies - 1 ELSE hist.bodies

\* every iteration of every cycle so far was reported exactly once, in order
IterationCallbacksExact ==
    \A c \in 1..cycle :
        LET k == CbCalls("iteration_data", c)
        IN  /\ c = cycle => k = BodiesPastCallback
            /\ \A n \in 0..(k - 1) :
                Cardinality({i \in 1..Len(cb_log) :
                                cb_log[i] = <<"iteration_data", c, n>>}) = 1

\* C10 (as stated): with a callback, it is called exactly once per inner
\* iteration and exactly once per cycle, cycle 1 included.
C10_CallbackEveryCycle ==
    cb => /\ IterationCallbacksExact
          /\ \A c \in 1..cycle : CbCalls("cycle_data", c) = 1

\* C10 (amended): with a callback, it is called exactly once per inner
\* iteration and exactly once per cycle from cycle 2 on; cycle 1 has no
\* cycle call.
C10_CallbackFromSecondCycle ==
    cb => /\ IterationCallbacksExact
          /\ \A c \in 1..cycle : CbCalls("cycle_data", c) = IF c >= 2 THEN 1 ELSE 0

\* C10 happens: optimize ended after two cycles, with the cycle call of
\* cycle 2 and iteration calls of both cycles made
C10_Witness ==
    /\ pc = "done"
    /\ cb
    /\ cycle = 2
    /\ CbCalls("cycle_data", 1) = 0
    /\ CbCalls("cycle_data", 2) = 1
    /\ CbCalls("iteration_data", 1) >= 1
    /\ CbCalls("iteration_data", 2) >= 1

C16_StopsIffOneOfThree ==
    [][pc = "p_cb" =>
        LET norm == get_norma(PSub(op.params_new.curr_p_mat, op.curr.curr_p_mat))
            delta == FAbs(Sub(op.params_new.cost, op.curr.cost))
            one_holds == \/ Lt(norm, _params.min_rgb_mat_delta)
                         \/ Lt(delta, _params.min_cost_delta)
                         \/ op.n + 1 >= _params.max_optimization_iters
        IN  /\ (pc' = "p_ret") <=> one_holds
            /\ (pc' = "p_eval") <=> ~one_holds
            /\ pc' = "p_eval" => (op'.curr = op.params_new /\ op'.n = op.n + 1)]_vars

\* C16 happens: after an iteration that went on, the loop stopped on the
\* cost difference alone
C16_Witness ==
    /\ pc = "p_ret"
    /\ op.n >= 1
    /\ op.stop = "cost"
    /\ ~Lt(get_norma(PSub(op.params_new.curr_p_mat, op.curr.curr_p_mat)),
           _params.min_rgb_mat_delta)
    /\ op.n < _params.max_optimization_iters

\* the step size the search starts from: max_step_size * norm(grad) /
\* norm(unit_grad)
C17_InitialStep(curr_params) ==
    LET grad == DivNormalizeMat(normalize(curr_params.calib_gradients,
                                          matrix_norm(curr_params.calib_gradients)))
    IN  Div(Mul(_params.max_step_size, matrix_norm(grad)),
            matrix_norm(normalize(grad, matrix_norm(grad))))

\* C17: the step is shrunk at most max_back_track_iters times, never once
\* its absolute value is at or below min_step_size, and the candidate tried
\* after k shrinks is current parameters + unit_grad * (initial step * tau^k).
C17_ShrinksBounded ==
    pc \in {"ls_loop", "p_cb"} =>
        LET k == hist.shrinks
            step_k == Div(C17_InitialStep(ls.curr_params), _params.tau_inv ^ k)
        IN  /\ k <= _params.max_back_track_iters
            /\ ls.step_size = step_k
            /\ ls.new_params.curr_p_mat
                = PAdd(ls.curr_params.curr_p_mat, PScale(ls.unit_grad, step_k))
            /\ k >= 1 => Gt(FAbs(Mul(ls.step_size, _params.tau_inv)), _params.min_step_size)

\* C17 happens: the search returned after as many shrinks as the bound allows
C17_Witness ==
    /\ pc = "p_cb"
    /\ hist.shrinks = _params.max_back_track_iters
    /\ hist.shrinks >= 1
    /\ ls.exit = "bound"

\* the angle in [0,360) of a drawn atan2 result, as the exact sum
TrueAngle(atan_deg) == IF atan_deg < 0 THEN atan_deg + Deg(360) ELSE atan_deg

\* the directions are computed: one per gradient
DirectionsDone ==
    /\ pc = "z_direction_per_pixel"
    /\ Len(_ir.directions) = Len(_ir.valid_gradient_deg)

\* C14 (as stated): every angle gets exactly one of the 8 bins, the same
\* angle the same bin, and the angles 0, 360 and those approaching 360 from
\* below (above 337.5) get bin 0.
C14_NearFullTurnIsBinZero ==
    pc = "z_direction_per_pixel" =>
        /\ DirectionsDone
        /\ \A i \in 1..Len(_ir.directions) :
            /\ _ir.directions[i] \in 0..7
            /\ \A j \in 1..Len(_ir.directions) :
                _ir.valid_gradient_deg[i] = _ir.valid_gradient_deg[j]
                    => _ir.directions[i] = _ir.directions[j]
            /\ (\/ _ir.valid_gradient_deg[i] = 0
                \/ 2 * TrueAngle(_ir.valid_gradient_deg[i]) > Deg(315) + Deg(360))
               => _ir.directions[i] = 0

\* C14 (amended): every angle gets exactly one of the 8 bins, the same angle
\* the same bin; 0 and 360 (an angle so close to 360 that it is 360 as a
\* double) get bin 0, every other angle above 337.5 gets bin 315.
C14_TotalDeterministic ==
    pc = "z_direction_per_pixel" =>
        /\ DirectionsDone
        /\ \A i \in 1..Len(_ir.directions) :
            /\ _ir.directions[i] \in 0..7
            /\ \A j \in 1..Len(_ir.directions) :
                _ir.valid_gradient_deg[i] = _ir.valid_gradient_deg[j]
                    => _ir.directions[i] = _ir.directions[j]
            /\ _ir.valid_gradient_deg[i] \in {0, TinyNegative} => _ir.directions[i] = 0
            /\ (/\ _ir.valid_gradient_deg[i] # TinyNegative
                /\ 2 * TrueAngle(_ir.valid_gradient_deg[i]) > Deg(315) + Deg(360))
               => _ir.directions[i] = 7

\* C14 happens: an angle of 352.5 got bin 315 and one that is 360 as a
\* double got bin 0
C14_Witness ==
    /\ DirectionsDone
    /\ \E i, j \in 1..Len(_ir.directions) :
        /\ TrueAngle(_ir.valid_gradient_deg[i]) = Deg(360) - 4
        /\ _ir.directions[i] = 7
        /\ _ir.valid_gradient_deg[j] = TinyNegative
        /\ _ir.directions[j] = 0

\* the angle in [0,360) as the double the code has: 360 is 0
AngleOf(atan_deg) == IF atan_deg = TinyNegative THEN 0 ELSE TrueAngle(atan_deg)

\* the distance of two angles around the circle
CircularDistance(a, b) ==
    IF Abs(a - b) <= Deg(180) THEN Abs(a - b) ELSE Deg(360) - Abs(a - b)

\* C18 (as stated): the bin is the one nearest to the angle around the
\* circle (angles above 337.5 get bin 0), the lower bin on equal distances.
C18_NearestAroundCircle ==
    pc = "z_direction_per_pixel" =>
        \A i \in 1..Len(_ir.directions) : \A k \in 0..7 :
            LET a == AngleOf(_ir.valid_gradient_deg[i])
                b == _ir.directions[i] * Deg(45)
            IN  /\ CircularDistance(a, b) <= CircularDistance(a, k * Deg(45))
                /\ CircularDistance(a, b) = CircularDistance(a, k * Deg(45)) => b <= k * Deg(45)

\* C18 (amended): the bin is the one of {0,45,...,315} with the smallest
\* difference |a - bin| as numbers, not around the circle, so angles above
\* 337.5 get bin 315; on equal differences the lower bin is chosen.
C18_NearestOnLine ==
    pc = "z_direction_per_pixel" =>
        \A i \in 1..Len(_ir.directions) : \A k \in 0..7 :
            LET a == AngleOf(_ir.valid_gradient_deg[i])
                b == _ir.directions[i] * Deg(45)
            IN  /\ Abs(a - b) <= Abs(a - k * Deg(45))
                /\ Abs(a - b) = Abs(a - k * Deg(45)) => b <= k * Deg(45)

\* C18 happens: 22.5, equally far from 0 and 45, got bin 0, and 345 got
\* bin 315
C18_Witness ==
    /\ DirectionsDone
    /\ \E i, j \in 1..Len(_ir.directions) :
        /\ 2 * _ir.valid_gradient_deg[i] = Deg(45)
        /\ _ir.directions[i] = 0
        /\ TrueAngle(_ir.valid_gradient_deg[j]) = Deg(360) - 8
        /\ _ir.directions[j] = 7

\* the (row, column) step of a direction bin: the signs of the sine and of
\* the cosine of 45 degrees times the bin
BinStep(bin) ==
    <<IF bin \in 1..3 THEN 1 ELSE IF bin \in 5..7 THEN -1 ELSE 0,
      IF bin \in {0, 1, 7} THEN 1 ELSE IF bin \in 3..5 THEN -1 ELSE 0>>

\* the valid IR pixels are numbered in row-major order
ValidIrPixels == {x \in 1..Len(_ir.edges) : _ir.edges[x] > _params.grad_ir_threshold}

\* the IR edge of the i-th valid pixel, offset pixels along its direction
EdgeSample(i, offset) ==
    LET x == Ascending(ValidIrPixels)[i]
        row == (x - 1) \div _ir.width
        col == (x - 1) % _ir.width
        step == BinStep(_ir.directions[i])
    IN  _ir.edges[PixelAt(row + step[1] * offset, col + step[2] * offset, _ir.width)]

SuppressionDone == pc \in {"z_sub_pixel", "z_depth_gradients"}

\* C19: after the suppression stage there is one flag per valid IR pixel, in
\* the order of the pixels, and a pixel's flag is set exactly when its edge
\* at offset 0 along its quantized direction is at least the edge at offset
\* -1 and at least the edge at offset +1 (whatever the edge at offset -2 is)
C19_FlagIsLocalMaximum ==
    SuppressionDone =>
        /\ Len(_ir.is_supressed) = Cardinality(ValidIrPixels)
        /\ \A i \in 1..Len(_ir.is_supressed) :
            _ir.is_supressed[i] = TRUE <=>
                /\ EdgeSample(i, 0) >= EdgeSample(i, -1)
                /\ EdgeSample(i, 0) >= EdgeSample(i, 1)

\* several valid pixels, one of them on a diagonal, flagged although the
\* edge two pixels against its direction is stronger, and one not flagged
C19_Witness ==
    /\ SuppressionDone
    /\ \E i, j \in 1..Len(_ir.is_supressed) :
        /\ _ir.is_supressed[i] = TRUE
        /\ _ir.directions[i] \in {1, 3, 5, 7}
        /\ EdgeSample(i, -2) > EdgeSample(i, 0)
        /\ _ir.is_supressed[j] = FALSE

\* the step of the i-th valid pixel, in thousandths of a pixel
ExpectedStep(i) ==
    LET s2 == EdgeSample(i, -1)
        s3 == EdgeSample(i, 0)
        s4 == EdgeSample(i, 1)
    IN  IF s4 + s2 - 2 * s3 = 0 THEN 0
        ELSE Div(-(SubPixelUnit \div 2) * (s4 - s2), s4 + s2 - 2 * s3)

\* C20: the sub-pixel offset of a valid pixel is 0 when s4 + s2 - 2*s3 = 0
\* and -0.5*(s4 - s2)/(s4 + s2 - 2*s3) otherwise, never the result of a
\* division by 0, and its sub-pixel location is its (row, column) plus the
\* offset times the step of its direction bin
C20_SubPixelOffset ==
    pc = "z_depth_gradients" =>
        /\ Len(_ir.fraq_step) = Cardinality(ValidIrPixels)
        /\ Len(_z.local_rc_subpixel) = 2 * Cardinality(ValidIrPixels)
        /\ \A i \in 1..Len(_ir.fraq_step) :
            LET x == Ascending(ValidIrPixels)[i]
                row == ((x - 1) \div _ir.width) + 1
                col == ((x - 1) % _ir.width) + 1
                step == BinStep(_ir.directions[i])
            IN  /\ _ir.fraq_step[i] = ExpectedStep(i)
                /\ _ir.fraq_step[i] # NaN
                /\ _z.local_rc_subpixel[2 * i - 1]
                     = row * SubPixelUnit + step[1] * ExpectedStep(i)
                /\ _z.local_rc_subpixel[2 * i]
                     = col * SubPixelUnit + step[2] * ExpectedStep(i)

\* a pixel whose denominator is 0 while its two neighbours differ, and
\* another that is moved off its integer location
C20_Witness ==
    /\ pc = "z_depth_gradients"
    /\ \E i, j \in 1..Len(_ir.fraq_step) :
        /\ EdgeSample(i, 1) + EdgeSample(i, -1) - 2 * EdgeSample(i, 0) = 0
        /\ EdgeSample(i, 1) # EdgeSample(i, -1)
        /\ _ir.fraq_step[i] = 0
        /\ _ir.fraq_step[j] # 0
        /\ _z.local_rc_subpixel[2 * j] # _ir.valid_location_rc[2 * j] * SubPixelUnit

\* the places of the two outermost rows and columns of an image
Margin(width, height) ==
    {x \in 1..(width * height) :
        \/ (x - 1) \div width \in {0, 1, height - 2, height - 1}
        \/ (x - 1) % width \in {0, 1, width - 2, width - 1}}

\* an image of one intensity
IsConstant(image) == \A x \in 1..Len(image) : image[x] = image[1]

\* the x-gradient, the y-gradient and the edge of an image are 0 on its
\* margin, and everywhere when the image has one intensity
ZeroWhereFlat(image, gradient_x, gradient_y, edges) ==
    \A x \in 1..Len(image) :
        x \in Margin(_z.width, _z.height) \/ IsConstant(image) =>
            gradient_x[x] = 0 /\ gradient_y[x] = 0 /\ edges[x] = 0

\* C15: after the gradient stage, the x-gradient, the y-gradient and the
\* edge magnitude of the depth and of the IR image are 0 on the two
\* outermost rows and columns, and everywhere for an image of one intensity
C15_MarginsAndFlatAreZero ==
    pc = "z_valid_edge_pixels" =>
        /\ ZeroWhereFlat(_z.frame, _z.gradient_x, _z.gradient_y, _z.edges)
        /\ ZeroWhereFlat(_ir.ir_frame, _ir.gradient_x, _ir.gradient_y, _ir.edges)

\* an image wider than high whose gradients were not 0 on the second
\* column before the margins were set, and are not 0 inside afterwards
C15_Witness ==
    /\ pc = "z_valid_edge_pixels"
    /\ _z.width > _z.height
    /\ \E x \in 1..Len(_z.frame) :
        /\ x \in Margin(_z.width, _z.height)
        /\ (x - 1) % _z.width = 1
        /\ calc_vertical_gradient(_z.frame, _z.width, _z.height)[x] # 0
        /\ _z.gradient_x[x] = 0
    /\ \E x \in 1..Len(_z.frame) : _z.edges[x] # 0
    /\ \E x \in 1..Len(_ir.ir_frame) : _ir.gradient_y[x] # 0

\* the arrays the cost / gradient stage reads, one entry per vertex
PerVertexArrays ==
    <<_z.subpixels_x, _z.subpixels_y, _z.closest, _z.directions, _z.weights, _z.vertices,
      _z.section_map_depth_inside>>

\* the pixels whose entry of the in-bounds mask is set, in order
InsidePixels ==
    LET kept == SelectSeq([i \in 1..Len(_z.is_inside) |-> i], LAMBDA i : _z.is_inside[i])
    IN  [n \in 1..Len(kept) |-> _z.uvmap[kept[n]].of]

DepthEdgePixels ==
    {p \in 1..Len(_z.grad_in_direction) :
        /\ _z.grad_in_direction[p].val > _params.grad_z_threshold
        /\ _ir.is_supressed[p]
        /\ \A k \in 1..4 : _z.local_values[4 * (p - 1) + k] > 0}

\* the pixels of the entries of an array
PixelsOf(array) == [i \in 1..Len(array) |-> array[i].of]

\* C21: the pixels that survive the depth-domain filter are, in their
\* order, those whose depth gradient in direction is above the configured
\* grad_z_threshold, whose suppression flag is set and whose depth is > 0
C21_SurvivesIffAboveThreshold ==
    pc = "z_vertices_all" =>
        /\ PixelsOf(_z.grad_in_direction_valid) = Ascending(DepthEdgePixels)
        /\ PixelsOf(_z.valid_edge_sub_pixel_x) = Ascending(DepthEdgePixels)
        /\ PixelsOf(_z.valid_directions) = Ascending(DepthEdgePixels)

\* the places of the depth-filtered vertices whose colour coordinate is in
\* [0, W - 1] x [0, H - 1], in order
InBounds ==
    Ascending({i \in 1..Len(_z.uvmap) :
        /\ 0 <= _z.uvmap[i].x /\ _z.uvmap[i].x <= _yuy.width - 1
        /\ 0 <= _z.uvmap[i].y /\ _z.uvmap[i].y <= _yuy.height - 1})

\* the entries of a depth-filtered array at the places in bounds
Retained(array) == [n \in 1..Len(InBounds) |-> array[InBounds[n]]]

\* C22: set_z_data keeps a depth-filtered vertex exactly when its colour
\* coordinate is in [0, W - 1] x [0, H - 1]; the same vertices are kept in
\* every per-vertex array, and every kept weight is constant_weights
C22_KeptIffInBounds ==
    pc = "z_filtered" =>
        /\ _z.subpixels_x = Retained(_z.valid_edge_sub_pixel_x)
        /\ _z.subpixels_y = Retained(_z.valid_edge_sub_pixel_y)
        /\ _z.closest = Retained(_z.values_for_subedges)
        /\ _z.grad_in_direction_inside = Retained(_z.grad_in_direction_valid)
        /\ _z.directions = Retained(_z.valid_directions)
        /\ _z.section_map_depth_inside = Retained(_z.valid_section_map)
        /\ _z.vertices = Retained(_z.vertices_all)
        /\ PixelsOf(_z.weights) = PixelsOf(_z.vertices)
        /\ \A i \in 1..Len(_z.weights) : _z.weights[i].val = _params.constant_weights

\* vertices kept on the two corners (0, 0) and (W - 1, H - 1), and one
\* dropped between them
C22_Witness ==
    /\ pc = "z_filtered"
    /\ Len(_z.uvmap) = 3
    /\ _z.uvmap[1].x = 0 /\ _z.uvmap[1].y = 0
    /\ ~_z.is_inside[2]
    /\ _z.uvmap[3].x = _yuy.width - 1 /\ _z.uvmap[3].y = _yuy.height - 1
    /\ Len(_z.vertices) = 2 /\ Len(_z.weights) = 2

\* the vertices of a call of calc_p_gradients whose two samples both differ
\* from the no-data value
Contributing ==
    {i \in 1..Len(op.w) : op.interp_IDT_x[i] # MaxDouble /\ op.interp_IDT_y[i] # MaxDouble}

\* sampled_gx * x_coeff + sampled_gy * y_coeff of vertex i, weighted, for
\* the averaged parameter
WeightedTerm(i) ==
    op.w[i] * (op.interp_IDT_x[i] * op.coefs.x_coeffs[i][1]
                + op.interp_IDT_y[i] * op.coefs.y_coeffs[i][1])

RECURSIVE TermsOver(_)
TermsOver(S) ==
    IF S = {} THEN 0
    ELSE LET i == CHOOSE x \in S : TRUE IN WeightedTerm(i) + TermsOver(S \ {i})

\* C23: calc_p_gradients returns the weighted sum of the terms of the
\* contributing vertices divided by their number; a vertex with a no-data
\* sample is in neither, and with no contributing vertex the result is the
\* unguarded 0 / 0
C23_AverageOverContributing ==
    pc = "g_done" =>
        /\ op.sum_of_valids = Cardinality(Contributing)
        /\ op.sums[1] = TermsOver(Contributing)
        /\ op.averages[1] = IF Contributing = {} THEN NaN
                            ELSE Div(TermsOver(Contributing), Cardinality(Contributing))

\* a call in which one vertex contributes and another, with one no-data
\* sample only, does not
C23_Witness ==
    /\ pc = "g_done"
    /\ Cardinality(Contributing) = 1
    /\ \E i \in 1..Len(op.w) :
        /\ op.interp_IDT_x[i] # MaxDouble
        /\ op.interp_IDT_y[i] = MaxDouble
    /\ op.averages[1] # 0
    /\ ~IsNaN(op.averages[1])

\* C24 (as stated): when optimize stopped on a rejected candidate, the
\* session's vertices are those of the last accepted cycle, the ones the
\* final calibration was optimised on, not those recomputed for the
\* rejected candidate
C24_VerticesOfLastAccepted ==
    (pc = "done" /\ hist.rejected # 0) =>
        /\ _z.vertices = LastAcceptedCycle
        /\ _z.vertices = get_calibration.by

\* C25 (as stated): when a run of optimize_p ends with an iteration count
\* of 0, the projection parameters its line search produced are those the
\* run was given
C25_ZeroCountMeansNoMove ==
    (pc = "p_ret" /\ op.n = 0) => op.params_new.curr_p_mat = op.params_curr.curr_p_mat

\* C26 (as stated): the back_tracking_line_search_iters a search reports is
\* the number of times it shrank the step, and is at most max_back_track_iters
C26_ReportedItersAreShrinks ==
    ls.exit # "none" =>
        /\ ls.back_tracking_line_search_iters = hist.shrinks
        /\ ls.back_tracking_line_search_iters <= _params.max_back_track_iters

\* C27: with min_rgb_mat_delta > 0, an iteration of optimize_p whose line
\* search rejected every step and returned its input is the last one: the
\* loop breaks on the step-norm test in that iteration, the iteration count
\* stays as it was and cost and gradients are not evaluated again
C27_RejectingIterationIsLast ==
    [][(pc = "p_cb" /\ _params.min_rgb_mat_delta > 0 /\ NotAccepted(ls) /\ pc' # pc)
        => /\ pc' = "p_ret"
           /\ op'.stop = "norm"
           /\ op'.n = op.n
           /\ hist'.bodies = hist.bodies]_vars

\* C27 happens: after at least one completed iteration, a search returned
\* its input and the loop has ended on the step-norm test
C27_Witness ==
    /\ pc = "p_ret"
    /\ op.stop = "norm"
    /\ op.n >= 1
    /\ op.params_new = op.curr

\* C29 (as stated): the last-row elements of the gradient are 0, and the
\* parameters back_tracking_line_search returns, accepted or restored, have
\* the last-row elements of the parameters it was given
C29_LastRowUntouched ==
    ls.exit # "none" =>
        /\ ls.curr_params.calib_gradients[2] = 0
        /\ op.params_new.curr_p_mat[2] = ls.curr_params.curr_p_mat[2]

\* C28: with grad_ir_threshold >= 0, frames of at least 5 x 5 and one
\* resolution for depth and IR, every index interpolation reads for one of
\* the 4 taps of a valid IR pixel, in the IR edge image, the depth gradients
\* and the depth frame, is in [0, width * height)
C28_TapIndicesInRange ==
    (/\ pc \in {"z_interpolation", "z_is_suppressed", "z_sub_pixel", "z_depth_gradients"}
     /\ _params.grad_ir_threshold >= 0
     /\ _z.width >= 5 /\ _z.height >= 5 /\ _ir.width = _z.width) =>
        \A k \in 1..4 : \A i \in 1..Len(_ir.valid_location_rc_x) :
            TapIndex(k, i) \in 0..(_z.width * _z.height - 1)

\* C28 happens: the IR edges were sampled and the depth is about to be, and
\* a tap of a valid pixel is the first or the last pixel of the image
C28_Witness ==
    /\ pc = "z_depth_gradients"
    /\ \E k \in 1..4 : \E i \in 1..Len(_ir.valid_location_rc_x) :
        TapIndex(k, i) \in {0, _z.width * _z.height - 1}

\* the 1-based column and row a retained pixel was found at, its direction,
\* and the column and row its sub-pixel location was rounded to
FoundAt(i) ==
    LET p == _z.subpixels_x[i].of
    IN  <<_ir.valid_location_rc_x[p], _ir.valid_location_rc_y[p]>>

RoundedTo(i) == <<_z.subpixels_x_round[i], _z.subpixels_y_round[i]>>

StepOf(i) ==
    LET d == directions[_ir.directions[_z.subpixels_x[i].of].val + 1]
    IN  <<d[2], d[1]>>

\* a flagged pixel's offset is at most half a pixel
OffsetsWithinHalf ==
    \A p \in 1..Len(_ir.fraq_step) :
        _ir.is_supressed[p] => Abs(_ir.fraq_step[p]) <= SubPixelUnit \div 2

\* C30 (as stated): a flagged pixel's sub-pixel offset is at most 0.5 in
\* absolute value, its location rounds to the pixel or to the next pixel
\* along its direction, one way or the other, and every index written into
\* relevant_pixels_image is in [0, width * height)
C30_RoundsAlongDirection ==
    pc = "z_relevant" =>
        /\ OffsetsWithinHalf
        /\ \A i \in 1..Len(_z.subpixels_x) :
            /\ RoundedTo(i) \in {FoundAt(i),
                                 <<FoundAt(i)[1] + StepOf(i)[1], FoundAt(i)[2] + StepOf(i)[2]>>,
                                 <<FoundAt(i)[1] - StepOf(i)[1], FoundAt(i)[2] - StepOf(i)[2]>>}
            /\ RelevantIndex(i) \in 0..(_z.width * _z.height - 1)

\* C30 (amended): a flagged pixel's sub-pixel offset is at most 0.5 in
\* absolute value, its location rounds to a pixel at most one column and one
\* row away from it, and every index written into relevant_pixels_image is
\* in [0, width * height)
C30_RoundsToNeighbour ==
    pc = "z_relevant" =>
        /\ OffsetsWithinHalf
        /\ \A i \in 1..Len(_z.subpixels_x) :
            /\ Abs(RoundedTo(i)[1] - FoundAt(i)[1]) <= 1
            /\ Abs(RoundedTo(i)[2] - FoundAt(i)[2]) <= 1
            /\ RelevantIndex(i) \in 0..(_z.width * _z.height - 1)

\* C30 happens: a retained pixel with an offset of half a pixel was rounded
\* to another pixel, and relevant_pixels_image is set there
C30_Witness ==
    /\ pc = "z_relevant"
    /\ \E i \in 1..Len(_z.subpixels_x) :
        /\ Abs(_ir.fraq_step[_z.subpixels_x[i].of]) = SubPixelUnit \div 2
        /\ RoundedTo(i) # FoundAt(i)
        /\ _z.relevant_pixels_image[RelevantIndex(i) + 1] = 1

====
